---- MODULE Spec2Model ----
(***************************************************************************)
(* Pointer-nullability analysis of crubit (nullability/): the type walker   *)
(* of type_nullability.cc, the non-flow-sensitive and flow-sensitive        *)
(* transfer functions and the merge of pointer_nullability_analysis.cc,     *)
(* driven over the control-flow graphs of small functions taken from the    *)
(* repository's tests.                                                      *)
(***************************************************************************)
EXTENDS Integers, Sequences, FiniteSets, TLC

(***************************************************************************)
(* Bounds of the model.                                                     *)
(***************************************************************************)
\* how many times the driver runs the analysis over the same function
MaxRuns == 2
\* how many calls of assignNullabilityVariable are made before a run
MaxAssignCalls == 2
\* how many pointers a plain pointer type given to the walker nests
MaxPointerDepth == 2

(***************************************************************************)
(* NullabilityKind and TypeNullability                                      *)
(***************************************************************************)
NonNull == "NonNull"
Nullable == "Nullable"
Unspecified == "Unspecified"
NullabilityKind == {NonNull, Nullable, Unspecified}
\* std::optional<NullabilityKind> without a value
NoKind == "None"

value_or(Opt, Default) == IF Opt = NoKind THEN Default ELSE Opt

\* n copies of Unspecified
UnspecifiedVector(n) == [i \in 1..n |-> Unspecified]

prepend(HeadKind, TailVec) == <<HeadKind>> \o TailVec

\* ArrayRef::drop_front: in range only when the vector is not empty; out of
\* range is a violated assertion of llvm::ArrayRef.
drop_front(V) == SubSeq(V, 2, Len(V))

\* vector::front() = NK: in range only when the vector is not empty; on an
\* empty vector the write lands outside the vector and the vector stays empty
SetFront(V, NK) == [V EXCEPT ![1] = NK]

\* ArrayRef::slice(N): the entries from position N on
slice(V, N) == SubSeq(V, N + 1, Len(V))

(***************************************************************************)
(* Types.  A type is a tuple whose first element names the node kind:       *)
(*   <<"builtin", name>>   int, bool, void, nullptr_t                       *)
(*   <<"ptr", T>>          PointerType                                      *)
(*   <<"attr", NK, T>>     AttributedType carrying a nullability attribute  *)
(*   <<"typedef", T>>      any other sugar (typedef, paren, ...)            *)
(*   <<"ref", T>>          ReferenceType                                    *)
(*   <<"array", T>>        ArrayType                                        *)
(*   <<"atomic", T>>       AtomicType (non-sugar, not walked)               *)
(*   <<"fn", R, Ps>>       FunctionProtoType                                *)
(*   <<"record", name>>    RecordType of a non-template class               *)
(*   <<"subst", D, i, pk, T>>  SubstTemplateTypeParmType: parameter i of   *)
(*                         the template of D (pack index pk), replaced by   *)
(*                         the canonical type T                             *)
(*   <<"rec", D>>          RecordType of the class declaration D            *)
(*   <<"tst", D, Args>>    TemplateSpecializationType naming the class      *)
(*                         template specialization D with written Args      *)
(*   <<"alias", A, Args, T>>  TemplateSpecializationType of the alias       *)
(*                         template A with written Args, aliasing T         *)
(*   <<"elab", Quals, T>>  ElaboratedType: T named with the qualifiers      *)
(*                         Quals, innermost first                           *)
(* A template argument is <<"type", T>>, <<"pack", Args>> or                *)
(* <<"integral", n>>.                                                       *)
(***************************************************************************)
Builtin(n) == <<"builtin", n>>
IntTy == Builtin("int")
BoolTy == Builtin("bool")
NullPtrT == Builtin("nullptr_t")
Ptr(T) == <<"ptr", T>>
Attr(NK, T) == <<"attr", NK, T>>
Typedef(T) == <<"typedef", T>>
Ref(T) == <<"ref", T>>
Atomic(T) == <<"atomic", T>>
\* a block pointer, R (^)(Ps): a canonical type that is no PointerType
BlockPointer(T) == <<"blockptr", T>>
Array(T) == <<"array", T>>
FunctionProto(R, Ps) == <<"fn", R, Ps>>
RecordType(D) == <<"rec", D>>
TemplateSpecializationType(D, Args) == <<"tst", D, Args>>
AliasSpecializationType(A, Args, T) == <<"alias", A, Args, T>>
ElaboratedType(Quals, T) == <<"elab", Quals, T>>
\* getPackIndex() of a parameter that is not substituted from a pack
NoPackIndex == -1
SubstTemplateTypeParmType(D, i, pk, T) == <<"subst", D, i, pk, T>>
TypeArg(T) == <<"type", T>>
PackArg(Args) == <<"pack", Args>>
IntegralArg(n) == <<"integral", n>>

\* a pointer written with annotation a (NoKind: not annotated)
APtr(a, T) == IF a = NoKind THEN Ptr(T) ELSE Attr(a, Ptr(T))

RECURSIVE Canonical(_)
Canonical(T) ==
  CASE T[1] = "attr" -> Canonical(T[3])
    [] T[1] = "typedef" -> Canonical(T[2])
    [] T[1] = "subst" -> Canonical(T[5])
    [] T[1] = "tst" -> RecordType(T[2])
    [] T[1] = "alias" -> Canonical(T[4])
    [] T[1] = "elab" -> Canonical(T[3])
    [] T[1] \in {"ptr", "ref", "array", "atomic", "blockptr"} ->
         <<T[1], Canonical(T[2])>>
    [] T[1] = "fn" ->
         <<"fn", Canonical(T[2]), [i \in 1..Len(T[3]) |-> Canonical(T[3][i])]>>
    [] OTHER -> T

isAnyPointerType(T) == Canonical(T)[1] = "ptr"
isNullPtrType(T) == Canonical(T) = NullPtrT
\* Type::getPointeeType(): the null QualType for a type without pointee
getPointeeType(T) ==
  IF Canonical(T)[1] \in {"ptr", "ref", "blockptr"} THEN Canonical(T)[2]
  ELSE Builtin("<null>")

\* clang Type::getNullability(): the outermost nullability attribute found
\* by peeling sugar off the type
RECURSIVE getNullability(_)
getNullability(T) ==
  CASE T[1] = "attr" -> T[2]
    [] T[1] = "typedef" -> getNullability(T[2])
    [] T[1] = "subst" -> getNullability(T[5])
    [] T[1] = "alias" -> getNullability(T[4])
    [] T[1] = "elab" -> getNullability(T[3])
    [] OTHER -> NoKind

(***************************************************************************)
(* NullabilityWalker: walker state is the pending annotation, the           *)
(* annotations reported so far, whether the CHECK of VisitAttributedType    *)
(* failed, and the substitution hook of getNullabilityAnnotationsFromType.  *)
(* ArgContexts is a history of the walk: for every sugared argument walked  *)
(* in place of a substituted parameter, the context record the argument     *)
(* was found in and the context it was walked in.                           *)
(***************************************************************************)
NoValue == <<"none">>

\* a null pointer to a declaration or to a template context
nullptr == [kind |-> "none"]

\* no SubstituteTypeParam callback
NoHook == [kind |-> "none"]

\* a class declaration: its name, the class that encloses it (nullptr at
\* namespace scope), the template arguments of a ClassTemplateSpecializationDecl
\* (NoValue for a class that is not a specialization) and whether it is
\* instantiated from a partial specialization
CXXRecordDecl(name, ctx, args, partial) ==
  [name |-> name, ctx |-> ctx, args |-> args, partial |-> partial]

\* an alias template: its name and the nullability of its annotate attribute
TypeAliasTemplateDecl(name, annotation) ==
  [name |-> name, annotation |-> annotation]

getAliasNullability(A) == A.annotation

\* TemplateContext; CurrentTemplateContext is nullptr outside any template
TemplateContext(AssociatedDecl, Args, Extends, ArgContext) ==
  [AssociatedDecl |-> AssociatedDecl, Args |-> Args, Extends |-> Extends,
   ArgContext |-> ArgContext]

\* the arguments of a partial specialization are not translated: they are
\* dropped from the context
translateTemplateArgsForSpecialization(Ctx) ==
  IF "partial" \in DOMAIN Ctx.AssociatedDecl /\ Ctx.AssociatedDecl.partial
    THEN [Ctx EXCEPT !.Args = NoValue]
    ELSE Ctx

WalkerInit ==
  [Pending |-> NoKind, Annotations |-> <<>>, Broken |-> FALSE, Hook |-> NoHook,
   CurrentTemplateContext |-> nullptr, ArgContexts |-> <<>>, Slices |-> <<>>]

sawNullabilityInnerWins(W, NK) == [W EXCEPT !.Pending = NK]

sawNullability(W, NK) ==
  IF W.Pending = NoKind THEN [W EXCEPT !.Pending = NK] ELSE W

ignoreUnexpectedNullability(W) == [W EXCEPT !.Pending = NoKind]

report(W, NK) == [W EXCEPT !.Annotations = Append(@, NK)]

\* llvm::SaveAndRestore of CurrentTemplateContext
Restore(W, Saved) == [W EXCEPT !.CurrentTemplateContext = Saved]

RECURSIVE Visit(_, _)
RECURSIVE VisitEach(_, _)
VisitEach(Ts, W) ==
  IF Ts = <<>> THEN W ELSE VisitEach(Tail(Ts), Visit(Head(Ts), W))

\* Visit(const TemplateArgument &): a type or the elements of a pack
RECURSIVE VisitTemplateArgument(_, _)
RECURSIVE VisitTemplateArguments(_, _)
VisitTemplateArguments(TAs, W) ==
  IF TAs = <<>> THEN W
  ELSE VisitTemplateArguments(Tail(TAs), VisitTemplateArgument(Head(TAs), W))

VisitTemplateArgument(TA, W) ==
  CASE TA[1] = "type" -> Visit(TA[2], W)
    [] TA[1] = "pack" -> VisitTemplateArguments(TA[2], W)
    [] OTHER -> W

\* Visit(const DeclContext *): only enclosing classes are walked
VisitDeclContext(DC, W) ==
  IF DC = nullptr THEN W ELSE Visit(RecordType(DC), W)

VisitPointerType(T, W) ==
  Visit(T[2], ignoreUnexpectedNullability(
                  report(W, value_or(W.Pending, Unspecified))))

VisitAttributedType(T, W) ==
  LET W2 == Visit(T[3], sawNullability(W, T[2]))
  IN  [W2 EXCEPT !.Broken = @ \/ W2.Pending # NoKind]

VisitFunctionProtoType(T, W) ==
  VisitEach(T[3], Visit(T[2], ignoreUnexpectedNullability(W)))

VisitRecordType(T, W) ==
  LET Args(W1) == IF T[2].args # NoValue
                    THEN VisitTemplateArguments(T[2].args, W1) ELSE W1
  IN  Args(VisitDeclContext(T[2].ctx, ignoreUnexpectedNullability(W)))

VisitTemplateSpecializationTypeAsWritten(T, W) ==
  IF T[1] = "alias"
    THEN Restore(
           Visit(T[4],
                 [(IF getAliasNullability(T[2]) # NoKind
                     THEN sawNullability(W, getAliasNullability(T[2])) ELSE W)
                    EXCEPT !.CurrentTemplateContext =
                      TemplateContext(T[2], T[3], W.CurrentTemplateContext,
                                      W.CurrentTemplateContext)]),
           W.CurrentTemplateContext)
    ELSE VisitTemplateArguments(
           T[3], VisitDeclContext(T[2].ctx, ignoreUnexpectedNullability(W)))

\* an alias is sugar: its underlying type is walked in a context that holds
\* its written arguments; a class specialization is walked as its enclosing
\* classes, its written arguments and then the arguments that were defaulted
VisitTemplateSpecializationType(T, W) ==
  IF T[1] = "alias"
    THEN Restore(
           Visit(T[4],
                 [(IF getAliasNullability(T[2]) # NoKind
                     THEN sawNullability(W, getAliasNullability(T[2])) ELSE W)
                    EXCEPT !.CurrentTemplateContext =
                      TemplateContext(T[2], T[3], W.CurrentTemplateContext,
                                      W.CurrentTemplateContext)]),
           W.CurrentTemplateContext)
    ELSE VisitTemplateArguments(
           SubSeq(T[2].args, Len(T[3]) + 1, Len(T[2].args)),
           VisitTemplateArguments(
             T[3], VisitDeclContext(T[2].ctx, ignoreUnexpectedNullability(W))))

\* the written argument the substituted parameter is bound to in the chain
\* of contexts that starts at Ctx, or NoValue; the index is unsigned
RECURSIVE BoundArgument(_, _)
BoundArgument(T, Ctx) ==
  IF Ctx = nullptr THEN NoValue
  ELSE IF T[2] # Ctx.AssociatedDecl THEN BoundArgument(T, Ctx.Extends)
  ELSE IF Ctx.Args = NoValue THEN NoValue
  ELSE LET Index == IF T[4] # NoPackIndex THEN Len(Ctx.Args) - 1 - T[4] ELSE T[3]
       IN  IF Index >= 0 /\ Index < Len(Ctx.Args) THEN Ctx.Args[Index + 1]
           ELSE BoundArgument(T, Ctx.Extends)

\* the context of the chain the argument BoundArgument returns is found in
RECURSIVE BoundContext(_, _)
BoundContext(T, Ctx) ==
  IF Ctx = nullptr THEN nullptr
  ELSE IF T[2] # Ctx.AssociatedDecl THEN BoundContext(T, Ctx.Extends)
  ELSE IF Ctx.Args = NoValue THEN nullptr
  ELSE LET Index == IF T[4] # NoPackIndex THEN Len(Ctx.Args) - 1 - T[4] ELSE T[3]
       IN  IF Index >= 0 /\ Index < Len(Ctx.Args) THEN Ctx
           ELSE BoundContext(T, Ctx.Extends)

\* the hook of substituteNullabilityAnnotationsInFunctionTemplate: the
\* annotations of the template argument written for the parameter, when the
\* callee is a reference to a specialization of the parameter's template
FunctionTemplateHook(Hook, ST) ==
  LET DRE == Hook.callee IN
  IF ~Hook.calleeIsDeclRef THEN NoValue
  ELSE IF DRE.ty[1] # "fn" THEN NoValue
  ELSE IF DRE.decl \notin DOMAIN Hook.templates THEN NoValue
  ELSE IF Hook.templates[DRE.decl] # ST[2] THEN NoValue
  ELSE IF ST[3] >= Len(DRE.targs) THEN NoValue
  ELSE IF DRE.targs[ST[3] + 1] = NoValue THEN NoValue
  ELSE Visit(DRE.targs[ST[3] + 1], WalkerInit).Annotations

\* the number of pointers of the template arguments TAs
countPointersInArguments(TAs) ==
  Len(VisitTemplateArguments(TAs, WalkerInit).Annotations)

ClassTemplateHookFromFront(Hook, ST) ==
  LET RT == Canonical(Hook.BaseType) IN
  IF RT[1] # "rec" THEN NoValue
  ELSE IF RT[2].args = NoValue \/ RT[2] # ST[2] THEN NoValue
  ELSE IF RT[2].partial THEN NoValue
  ELSE IF ST[4] # NoPackIndex THEN NoValue
  ELSE SubSeq(Hook.BaseNullabilityAnnotations, 1,
              countPointersInArguments(<<RT[2].args[ST[3] + 1]>>))

\* the hook of substituteNullabilityAnnotationsInClassTemplate: the slice of
\* the base's annotations that belongs to the argument the parameter is
\* bound to, when the base is the class template specialization that owns
\* the parameter
ClassTemplateSlice(Hook, ST) ==
  LET RT == Canonical(Hook.BaseType) IN
  IF RT[1] # "rec" THEN NoValue
  ELSE IF RT[2].args = NoValue \/ RT[2] # ST[2] THEN NoValue
  ELSE IF RT[2].partial THEN NoValue
  ELSE IF ST[4] # NoPackIndex THEN NoValue
  ELSE <<"slice",
         Len(VisitDeclContext(RT[2].ctx, WalkerInit).Annotations)
           + countPointersInArguments(SubSeq(RT[2].args, 1, ST[3])),
         countPointersInArguments(<<RT[2].args[ST[3] + 1]>>)>>

ClassTemplateHook(Hook, ST) ==
  LET Cut(S) ==
        IF S = NoValue THEN NoValue
        ELSE SubSeq(Hook.BaseNullabilityAnnotations, S[2] + 1, S[2] + S[3])
  IN  Cut(ClassTemplateSlice(Hook, ST))

SubstituteTypeParam(Hook, ST) ==
  CASE Hook.kind = "function" -> FunctionTemplateHook(Hook, ST)
    [] Hook.kind = "class" -> ClassTemplateHook(Hook, ST)
    [] OTHER -> NoValue

\* NullabilityWalker::VisitSubstTemplateTypeParmType: the bound argument is
\* walked in the context its sugar was written in; an unbound parameter is
\* walked as its replacement type
WalkerVisitSubstTemplateTypeParmType(T, W) ==
  LET Walk(Arg) ==
        IF Arg # NoValue
          THEN Restore(
                 VisitTemplateArgument(
                   Arg, [W EXCEPT !.CurrentTemplateContext =
                                    W.CurrentTemplateContext.ArgContext,
                                  !.ArgContexts =
                                    Append(@, [Found |-> BoundContext(
                                                 T, W.CurrentTemplateContext),
                                               In |-> W.CurrentTemplateContext
                                                       .ArgContext])]),
                 W.CurrentTemplateContext)
          ELSE Visit(T[5], W)
  IN  Walk(BoundArgument(T, W.CurrentTemplateContext))

VisitSubstTemplateTypeParmType(T, W) ==
  LET With(Subst) ==
        IF Subst # NoValue
          THEN [W EXCEPT !.Annotations = @ \o Subst,
                         !.Slices = IF W.Hook.kind = "class"
                                      THEN Append(@, ClassTemplateSlice(W.Hook, T))
                                      ELSE @]
          ELSE WalkerVisitSubstTemplateTypeParmType(T, W)
  IN  With(IF W.Hook.kind = "none" THEN NoValue
           ELSE SubstituteTypeParam(W.Hook, T))

\* the contexts bound by the qualifiers Quals (innermost first): each
\* extends the next one, and the last one the context Current
RECURSIVE BoundTemplateArgs(_, _)
BoundTemplateArgs(Quals, Current) ==
  IF Quals = <<>> THEN Current
  ELSE IF Head(Quals)[1] \notin {"tst", "alias"}
    THEN BoundTemplateArgs(Tail(Quals), Current)
  ELSE [translateTemplateArgsForSpecialization(
          TemplateContext(Head(Quals)[2], Head(Quals)[3], nullptr, Current))
          EXCEPT !.Extends = BoundTemplateArgs(Tail(Quals), Current)]

VisitElaboratedType(T, W) ==
  Restore(Visit(T[3], [W EXCEPT !.CurrentTemplateContext =
                                  BoundTemplateArgs(T[2], W.CurrentTemplateContext)]),
          W.CurrentTemplateContext)

Visit(T, W) ==
  CASE T[1] = "attr" -> VisitAttributedType(T, W)
    [] T[1] = "ptr" -> VisitPointerType(T, W)
    [] T[1] \in {"ref", "array"} -> Visit(T[2], ignoreUnexpectedNullability(W))
    [] T[1] = "fn" -> VisitFunctionProtoType(T, W)
    [] T[1] = "subst" -> VisitSubstTemplateTypeParmType(T, W)
    [] T[1] \in {"tst", "alias"} -> VisitTemplateSpecializationType(T, W)
    [] T[1] = "elab" -> VisitElaboratedType(T, W)
    [] T[1] = "rec" -> VisitRecordType(T, W)
    [] T[1] = "typedef" -> Visit(T[2], W)
    [] OTHER -> ignoreUnexpectedNullability(W)

countPointersInType(T) == Len(Visit(T, WalkerInit).Annotations)

getNullabilityAnnotationsFromTypeUnspecified(T, Hook) ==
  UnspecifiedVector(countPointersInType(T))

getNullabilityAnnotationsFromType(T, Hook) ==
  Visit(T, [WalkerInit EXCEPT !.Hook = Hook]).Annotations

(***************************************************************************)
(* Rebuilder: the state is the part of the vector not yet consumed and      *)
(* whether the CHECK of VisitPointerType failed; a visit returns the        *)
(* rebuilt type with the state after it.                                    *)
(***************************************************************************)
Rebuilt(ty, R) == [ty |-> ty, Nullability |-> R.Nullability, short |-> R.short]

RECURSIVE RebuilderVisit(_, _)

\* the types Ts rebuilt one after the other; ty is the sequence of results
RECURSIVE RebuilderVisitEach(_, _, _)
RebuilderVisitEach(Ts, Done, R) ==
  IF Ts = <<>> THEN Rebuilt(Done, R)
  ELSE LET Next1(V) == RebuilderVisitEach(Tail(Ts), Append(Done, V.ty), V)
       IN  Next1(RebuilderVisit(Head(Ts), R))

\* Visit(TemplateArgument): only a type argument is transformed
RECURSIVE RebuilderVisitArguments(_, _, _)
RebuilderVisitArguments(TAs, Done, R) ==
  IF TAs = <<>> THEN Rebuilt(Done, R)
  ELSE IF Head(TAs)[1] # "type"
    THEN RebuilderVisitArguments(Tail(TAs), Append(Done, Head(TAs)), R)
  ELSE LET Next1(V) ==
             RebuilderVisitArguments(Tail(TAs), Append(Done, TypeArg(V.ty)), V)
       IN  Next1(RebuilderVisit(Head(TAs)[2], R))

RebuilderVisitPointerType(T, R) ==
  IF R.Nullability = <<>> THEN Rebuilt(T, [R EXCEPT !.short = TRUE])
  ELSE LET Wrap(NK, V) ==
             Rebuilt(IF NK = Unspecified THEN Ptr(V.ty) ELSE Attr(NK, Ptr(V.ty)),
                     V)
       IN  Wrap(Head(R.Nullability),
                RebuilderVisit(T[2], [R EXCEPT !.Nullability = drop_front(@)]))

RebuilderVisitRecordType(T, R) ==
  IF T[2].args # NoValue
    THEN LET Sugar(V) == Rebuilt(TemplateSpecializationType(T[2], V.ty), V)
         IN  Sugar(RebuilderVisitArguments(T[2].args, <<>>, R))
    ELSE Rebuilt(T, R)

RebuilderVisitFunctionProtoType(T, R) ==
  LET Params(Ret) ==
        LET Fn(Ps) == Rebuilt(FunctionProto(Ret.ty, Ps.ty), Ps)
        IN  Fn(RebuilderVisitEach(T[3], <<>>, Ret))
  IN  Params(RebuilderVisit(T[2], R))

\* a CHECK that failed ends the program: nothing more is rebuilt
RebuilderVisit(T, R) ==
  IF R.short THEN Rebuilt(T, R)
  ELSE CASE T[1] = "ptr" -> RebuilderVisitPointerType(T, R)
         [] T[1] = "rec" -> RebuilderVisitRecordType(T, R)
         [] T[1] = "fn" -> RebuilderVisitFunctionProtoType(T, R)
         [] T[1] \in {"ref", "array"} ->
              LET Same(V) == Rebuilt(<<T[1], V.ty>>, V)
              IN  Same(RebuilderVisit(T[2], R))
         [] OTHER -> Rebuilt(T, R)

\* rebuildWithNullability: the rebuilt type, and which of the two CHECKs
\* failed: the vector was too short at a pointer, or not consumed at the end
rebuildWithNullability(T, Nullability) ==
  LET Result(V) == [ty |-> V.ty, short |-> V.short,
                    long |-> ~V.short /\ V.Nullability # <<>>]
  IN  Result(RebuilderVisit(Canonical(T),
                            [Nullability |-> Nullability, short |-> FALSE]))

(***************************************************************************)
(* The types given to the walker and to the rebuilder, after the templates  *)
(*   template <class F, class S> struct P { S *_Nullable second(); ... };   *)
(*   template <class T, class U = int *> struct Dflt;                       *)
(*   template <class... Ts> struct Tuple;                                   *)
(*   template <class T, int N> struct Arr;                                  *)
(*   template <class T> struct Outer {                                      *)
(*     struct Inner; using Alias = T; using NullableAlias = T _Nullable; }; *)
(*   template <class T> struct Part;                                        *)
(*   template <class T> struct Part<T *> { using Alias = T; };              *)
(*   template <class T, class U> struct Two {                               *)
(*     struct bar { using baz = U; }; template <class V> using First = T; };*)
(*   using B = Two<int *, int *>::bar;  using W = B::baz;                   *)
(*   template <class T> using Nullable [[clang::annotate("Nullable")]] = T; *)
(*   template <class T> using Same = T;                                     *)
(*   template <class... Ts> using TupleOf = Tuple<Ts...>;                   *)
(***************************************************************************)
Annotations == {NoKind, NonNull, Nullable}

\* int with up to d pointers, each written with or without an annotation
RECURSIVE PointerChains(_)
PointerChains(d) ==
  IF d = 0 THEN {IntTy}
  ELSE PointerChains(d - 1)
         \cup {APtr(a, T) : a \in Annotations, T \in PointerChains(d - 1)}

\* the types written as template arguments
WrittenArgs == PointerChains(1)

PDecl(F, S) ==
  CXXRecordDecl("P", nullptr, <<TypeArg(Canonical(F)), TypeArg(Canonical(S))>>,
                FALSE)
DfltDecl(X) ==
  CXXRecordDecl("Dflt", nullptr, <<TypeArg(Canonical(X)), TypeArg(Ptr(IntTy))>>,
                FALSE)
TupleDecl(X, Y) ==
  CXXRecordDecl("Tuple", nullptr,
                <<PackArg(<<TypeArg(Canonical(X)), TypeArg(Canonical(Y))>>)>>,
                FALSE)
ArrDecl(X) ==
  CXXRecordDecl("Arr", nullptr, <<TypeArg(Canonical(X)), IntegralArg(3)>>, FALSE)
OuterDecl(X) == CXXRecordDecl("Outer", nullptr, <<TypeArg(Canonical(X))>>, FALSE)
InnerDecl(X) == CXXRecordDecl("Inner", OuterDecl(X), NoValue, FALSE)
PartDecl(X) ==
  CXXRecordDecl("Part", nullptr, <<TypeArg(Ptr(Canonical(X)))>>, TRUE)
TwoDecl(X, Y) ==
  CXXRecordDecl("Two", nullptr, <<TypeArg(Canonical(X)), TypeArg(Canonical(Y))>>,
                FALSE)
BarDecl(X, Y) == CXXRecordDecl("bar", TwoDecl(X, Y), NoValue, FALSE)
FirstAlias == TypeAliasTemplateDecl("Two::First", NoKind)
NullableAlias == TypeAliasTemplateDecl("Nullable", Nullable)
SameAlias == TypeAliasTemplateDecl("Same", NoKind)
TupleOfAlias == TypeAliasTemplateDecl("TupleOf", NoKind)

\* P<F, S>, Dflt<X>, Tuple<X, Y>, Arr<X, 3>, Outer<X> as written
PType(F, S) == TemplateSpecializationType(PDecl(F, S), <<TypeArg(F), TypeArg(S)>>)
DfltType(X) == TemplateSpecializationType(DfltDecl(X), <<TypeArg(X)>>)
TupleType(X, Y) ==
  TemplateSpecializationType(TupleDecl(X, Y), <<TypeArg(X), TypeArg(Y)>>)
ArrType(X) ==
  TemplateSpecializationType(ArrDecl(X), <<TypeArg(X), IntegralArg(3)>>)
OuterType(X) == TemplateSpecializationType(OuterDecl(X), <<TypeArg(X)>>)
\* Outer<X>::Inner, Outer<X>::Alias, Outer<X>::NullableAlias, Part<X *>::Alias
InnerType(X) == ElaboratedType(<<OuterType(X)>>, RecordType(InnerDecl(X)))
OuterAliasType(X) ==
  ElaboratedType(<<OuterType(X)>>,
                 Typedef(SubstTemplateTypeParmType(OuterDecl(X), 0, NoPackIndex,
                                                   Canonical(X))))
OuterNullableAliasType(X) ==
  ElaboratedType(<<OuterType(X)>>,
                 Typedef(Attr(Nullable,
                              SubstTemplateTypeParmType(OuterDecl(X), 0, NoPackIndex,
                                                        Canonical(X)))))
PartAliasType(X) ==
  ElaboratedType(<<TemplateSpecializationType(PartDecl(X), <<TypeArg(Ptr(X))>>)>>,
                 Typedef(SubstTemplateTypeParmType(PartDecl(X), 0, NoPackIndex,
                                                   Canonical(X))))
\* W: the qualifier B is a typedef, which binds no template arguments
BazType ==
  Typedef(ElaboratedType(
    <<Typedef(ElaboratedType(
        <<TemplateSpecializationType(TwoDecl(Ptr(IntTy), Ptr(IntTy)),
                                     <<TypeArg(Ptr(IntTy)), TypeArg(Ptr(IntTy))>>)>>,
        RecordType(BarDecl(Ptr(IntTy), Ptr(IntTy)))))>>,
    Typedef(SubstTemplateTypeParmType(TwoDecl(Ptr(IntTy), Ptr(IntTy)), 1,
                                      NoPackIndex, Ptr(IntTy)))))
\* Two<X, Y>::First<int>
TwoFirstType(X, Y) ==
  ElaboratedType(
    <<TemplateSpecializationType(TwoDecl(X, Y), <<TypeArg(X), TypeArg(Y)>>)>>,
    AliasSpecializationType(
      FirstAlias, <<TypeArg(IntTy)>>,
      SubstTemplateTypeParmType(TwoDecl(X, Y), 0, NoPackIndex, Canonical(X))))
\* Nullable<X>, Same<X>
AliasType(A, X) ==
  AliasSpecializationType(A, <<TypeArg(X)>>,
                          SubstTemplateTypeParmType(A, 0, NoPackIndex, Canonical(X)))
\* TupleOf<X, Y>: the elements of the pack are numbered from the last one
TupleOfType(X, Y) ==
  AliasSpecializationType(
    TupleOfAlias, <<TypeArg(X), TypeArg(Y)>>,
    TemplateSpecializationType(
      TupleDecl(X, Y),
      <<TypeArg(SubstTemplateTypeParmType(TupleOfAlias, 0, 1, Canonical(X))),
        TypeArg(SubstTemplateTypeParmType(TupleOfAlias, 0, 0, Canonical(Y)))>>))

\* an annotation written on a typedef of a pointer that has its own
AnnotatedTwice ==
  {Attr(a, Typedef(APtr(b, IntTy))) : a \in {NonNull, Nullable}, b \in Annotations}

\* types without a pointer at the top, as arguments of Nullable<> and Same<>
NonPointers ==
  {IntTy, Ref(Ptr(IntTy)), Array(Attr(NonNull, Ptr(IntTy))),
   FunctionProto(Ptr(IntTy), <<Attr(NonNull, Ptr(IntTy))>>),
   PType(Ptr(IntTy), Attr(NonNull, Ptr(IntTy)))}

SugaredTypes ==
  PointerChains(MaxPointerDepth)
    \cup AnnotatedTwice
    \cup {AliasType(A, X) : A \in {NullableAlias, SameAlias}, X \in NonPointers}
    \cup {Ref(X) : X \in WrittenArgs} \cup {Array(X) : X \in WrittenArgs}
    \cup {Typedef(X) : X \in WrittenArgs}
    \cup {FunctionProto(X, <<Y>>) : X \in WrittenArgs, Y \in WrittenArgs}
    \cup {PType(X, Y) : X \in WrittenArgs, Y \in WrittenArgs}
    \cup {Ptr(PType(X, IntTy)) : X \in WrittenArgs}
    \cup {DfltType(X) : X \in WrittenArgs}
    \cup {TupleType(X, Y) : X \in WrittenArgs, Y \in WrittenArgs}
    \cup {ArrType(X) : X \in WrittenArgs}
    \cup {InnerType(X) : X \in WrittenArgs}
    \cup {OuterAliasType(X) : X \in WrittenArgs}
    \cup {OuterNullableAliasType(X) : X \in WrittenArgs \ {IntTy}}
    \cup {PartAliasType(X) : X \in WrittenArgs}
    \cup {AliasType(A, X) : A \in {NullableAlias, SameAlias},
                            X \in WrittenArgs \ {IntTy}}
    \cup {TupleOfType(X, Y) : X \in WrittenArgs, Y \in WrittenArgs}
    \cup {BazType}
    \cup {TwoFirstType(X, Y) : X \in WrittenArgs \cup {BazType}, Y \in WrittenArgs}

\* the hook of substituteNullabilityAnnotationsInClassTemplate for a member
\* of the base type BaseType
ClassHook(BaseType) ==
  [kind |-> "class", BaseType |-> BaseType,
   BaseNullabilityAnnotations |->
     getNullabilityAnnotationsFromType(BaseType, NoHook)]

\* the types of the members of P<F, S>:  F first;  S *_Nullable second();
\* S _Nullable third;
FirstType(F, S) == SubstTemplateTypeParmType(PDecl(F, S), 0, NoPackIndex, Canonical(F))
SecondType(F, S) ==
  FunctionProto(Attr(Nullable,
                     Ptr(SubstTemplateTypeParmType(PDecl(F, S), 1, NoPackIndex,
                                                   Canonical(S)))), <<>>)
ThirdType(F, S) ==
  Attr(Nullable, SubstTemplateTypeParmType(PDecl(F, S), 1, NoPackIndex, Canonical(S)))

\* what getNullabilityAnnotationsFromType is called with: a type, and the
\* hook of a member access for the type of a member
WalkInputs ==
  {[T |-> T, Hook |-> NoHook] :
     T \in SugaredTypes \cup {Canonical(T) : T \in SugaredTypes}}
    \cup UNION {{[T |-> M, Hook |-> ClassHook(PType(F, S))] :
                   M \in {FirstType(F, S), SecondType(F, S)}
                            \cup (IF isAnyPointerType(S) THEN {ThirdType(F, S)}
                                  ELSE {})} :
                 F \in WrittenArgs, S \in WrittenArgs}

(***************************************************************************)
(* Boolean values of the dataflow arena.  A formula is a tuple:             *)
(*   <<"atom", n>>  <<"lit", b>>  <<"not", f>>  <<"and", f, g>>             *)
(*   <<"or", f, g>>  <<"imp", f, g>>  <<"iff", f, g>>                       *)
(* Two formulas are the same handle when they are the same tuple.           *)
(***************************************************************************)
Atom(n) == <<"atom", n>>
getBoolLiteralValue(b) == <<"lit", b>>
makeNot(f) == <<"not", f>>
makeAnd(f, g) == <<"and", f, g>>
makeOr(f, g) == <<"or", f, g>>
makeImplication(f, g) == <<"imp", f, g>>
makeIff(f, g) == <<"iff", f, g>>

\* f with atom a replaced by the truth value b, literals folded away
RECURSIVE Substitute(_, _, _)
FoldNot(x) == IF x[1] = "lit" THEN <<"lit", ~x[2]>> ELSE <<"not", x>>
FoldAnd(x, y) ==
  CASE x[1] = "lit" -> IF x[2] THEN y ELSE x
    [] y[1] = "lit" -> IF y[2] THEN x ELSE y
    [] OTHER -> <<"and", x, y>>
FoldOr(x, y) ==
  CASE x[1] = "lit" -> IF x[2] THEN x ELSE y
    [] y[1] = "lit" -> IF y[2] THEN y ELSE x
    [] OTHER -> <<"or", x, y>>
FoldIff(x, y) ==
  CASE x[1] = "lit" -> IF x[2] THEN y ELSE FoldNot(y)
    [] y[1] = "lit" -> IF y[2] THEN x ELSE FoldNot(x)
    [] OTHER -> <<"iff", x, y>>
Substitute(f, a, b) ==
  CASE f[1] = "atom" -> IF f[2] = a THEN <<"lit", b>> ELSE f
    [] f[1] = "lit" -> f
    [] f[1] = "not" -> FoldNot(Substitute(f[2], a, b))
    [] f[1] = "and" -> FoldAnd(Substitute(f[2], a, b), Substitute(f[3], a, b))
    [] f[1] = "or" -> FoldOr(Substitute(f[2], a, b), Substitute(f[3], a, b))
    [] f[1] = "imp" ->
         FoldOr(FoldNot(Substitute(f[2], a, b)), Substitute(f[3], a, b))
    [] OTHER -> FoldIff(Substitute(f[2], a, b), Substitute(f[3], a, b))

\* the leftmost atom of a folded formula that is no literal
RECURSIVE FirstAtom(_)
FirstAtom(f) == IF f[1] = "atom" THEN f[2] ELSE FirstAtom(f[2])

\* the solver: case split on the atoms of a folded formula
RECURSIVE Satisfiable(_)
Satisfiable(f) ==
  IF f[1] = "lit" THEN f[2]
  ELSE LET a == FirstAtom(f)
       IN  Satisfiable(Substitute(f, a, TRUE))
             \/ Satisfiable(Substitute(f, a, FALSE))

RECURSIVE ConjunctionOfSet(_)
ConjunctionOfSet(Cs) ==
  IF Cs = {} THEN <<"lit", TRUE>>
  ELSE LET c == CHOOSE x \in Cs : TRUE
       IN  <<"and", c, ConjunctionOfSet(Cs \ {c})>>

\* is the conjunction of a sequence of formulas unsatisfiable
isUnsatisfiable(First, Rest) ==
  ~Satisfiable(Substitute(<<"and", First, ConjunctionOfSet(Rest)>>, 0, TRUE))

(***************************************************************************)
(* The analysis context (arena): atoms and values created so far, the null  *)
(* state properties attached to pointer values, and the constraints and     *)
(* dependencies of the flow condition tokens.                               *)
(***************************************************************************)
ArenaInit ==
  [nextAtom |-> 1, nextVal |-> 1, nextLoc |-> 1,
   Known |-> << >>, Null |-> << >>,
   FlowConditionConstraints |-> << >>, FlowConditionDeps |-> << >>,
   PointeeLoc |-> << >>, NullPointerVals |-> << >>]

Put(f, k, v) == [x \in DOMAIN f \cup {k} |-> IF x = k THEN v ELSE f[x]]

PointerValue(n) == <<"ptrval", n>>
OtherValue(n) == <<"val", n>>
isPointerValue(v) == v[1] = "ptrval"
\* the storage location a pointer value points to
getPointeeLoc(A, v) == A.PointeeLoc[v]

addFlowConditionConstraint(A, Token, Constraint) ==
  [A EXCEPT !.FlowConditionConstraints =
     Put(@, Token, IF Token \in DOMAIN @ THEN Append(@[Token], Constraint)
                   ELSE <<Constraint>>)]

RECURSIVE TransitiveTokens(_, _)
TransitiveTokens(A, Tokens) ==
  LET More == Tokens \cup
        UNION {A.FlowConditionDeps[t] :
                 t \in Tokens \cap DOMAIN A.FlowConditionDeps}
  IN  IF More = Tokens THEN Tokens ELSE TransitiveTokens(A, More)

RECURSIVE Conjunction(_)
Conjunction(Cs) ==
  IF Len(Cs) = 1 THEN Cs[1]
  ELSE makeAnd(Conjunction(SubSeq(Cs, 1, Len(Cs) - 1)), Cs[Len(Cs)])

\* every token the flow condition depends on is bound by iff to the
\* conjunction of its constraints; a token without constraints is true
FlowConditionClauses(A, Token) ==
  {IF t \in DOMAIN A.FlowConditionConstraints
     THEN makeIff(Atom(t), Conjunction(A.FlowConditionConstraints[t]))
     ELSE Atom(t) : t \in TransitiveTokens(A, {Token})}

flowConditionImplies(A, Token, Val) ==
  isUnsatisfiable(makeAnd(Atom(Token), makeNot(Val)),
                  FlowConditionClauses(A, Token))

(***************************************************************************)
(* The transfer state S = [Lattice, Env, Arena].                            *)
(*   Lattice: ExprNullability, DeclTopLevelNullability                      *)
(*   Env: FlowConditionToken, ExprToLoc, LocToVal, ReturnVal                *)
(***************************************************************************)
makeAtomicBoolValue(S) == [S EXCEPT !.Arena.nextAtom = @ + 1]
\* the atom makeAtomicBoolValue has just created
LastAtom(S) == Atom(S.Arena.nextAtom - 1)

addToFlowCondition(S, Val) ==
  [S EXCEPT !.Arena =
     addFlowConditionConstraint(@, S.Env.FlowConditionToken, Val)]

EnvImplies(S, Val) ==
  flowConditionImplies(S.Arena, S.Env.FlowConditionToken, Val)

getStorageLocation(Env, E) ==
  IF E \in DOMAIN Env.ExprToLoc THEN Env.ExprToLoc[E] ELSE NoValue

getValueAt(Env, Loc) ==
  IF Loc \in DOMAIN Env.LocToVal THEN Env.LocToVal[Loc] ELSE NoValue

\* Environment::getValue(E, SkipPast::Reference)
getValue(Env, E) ==
  IF E \in DOMAIN Env.ExprToLoc THEN getValueAt(Env, Env.ExprToLoc[E])
  ELSE NoValue

setValue(S, Loc, Val) == [S EXCEPT !.Env.LocToVal = Put(@, Loc, Val)]

setStorageLocation(S, E, Loc) == [S EXCEPT !.Env.ExprToLoc = Put(@, E, Loc)]

\* Environment::setValueStrict(E, Val): the value of a prvalue
setValueStrict(S, E, Val) ==
  setValue(setStorageLocation(S, E, <<"expr", E>>), <<"expr", E>>, Val)

(***************************************************************************)
(* pointer_nullability: the null state of a pointer value is the pair of    *)
(* properties is_known and is_null.                                         *)
(***************************************************************************)
getPointerValueFromExpr(E, Env) ==
  LET v == getValue(Env, E) IN IF isPointerValue(v) THEN v ELSE NoValue

hasPointerNullState(A, PointerVal) ==
  PointerVal \in DOMAIN A.Known /\ PointerVal \in DOMAIN A.Null

getPointerNullState(A, PointerVal) ==
  <<A.Known[PointerVal], A.Null[PointerVal]>>

\* a property is set once; without a constraint it is a fresh atom
initPointerBoolProperty(S, PointerVal, Name, BoolVal) ==
  IF PointerVal \in DOMAIN S.Arena[Name] THEN S
  ELSE IF BoolVal = NoValue
    THEN LET S2 == makeAtomicBoolValue(S)
         IN  [S2 EXCEPT !.Arena[Name] = Put(@, PointerVal, LastAtom(S2))]
    ELSE [S EXCEPT !.Arena[Name] = Put(@, PointerVal, BoolVal)]

initPointerNullState(S, PointerVal, KnownConstraint, NullConstraint) ==
  initPointerBoolProperty(
    initPointerBoolProperty(S, PointerVal, "Known", KnownConstraint),
    PointerVal, "Null", NullConstraint)

initUnknownPointer(S, PointerVal) ==
  initPointerNullState(S, PointerVal, getBoolLiteralValue(FALSE), NoValue)

initNotNullPointer(S, PointerVal) ==
  initPointerNullState(S, PointerVal, getBoolLiteralValue(TRUE),
                       getBoolLiteralValue(FALSE))

initNullablePointer(S, PointerVal) ==
  initPointerNullState(S, PointerVal, getBoolLiteralValue(TRUE), NoValue)

initNullPointer(S, PointerVal) ==
  initPointerNullState(S, PointerVal, getBoolLiteralValue(TRUE),
                       getBoolLiteralValue(TRUE))

\* the diagnosis: a pointer may be null here unless the flow condition
\* excludes "known and null"
isNullable(S, PointerVal) ==
  LET st == getPointerNullState(S.Arena, PointerVal)
  IN  ~EnvImplies(S, makeNot(makeAnd(st[1], st[2])))


(***************************************************************************)
(* The functions under analysis.  A function is its parameters, its AST     *)
(* nodes (by id) and its control-flow graph: blocks in reverse post-order,  *)
(* each with the ids of its elements and its predecessor edges; an edge     *)
(* names the predecessor, the condition of its terminator (0: none) and     *)
(* whether the edge is the false branch.                                    *)
(***************************************************************************)
Node(kind, ty) ==
  [kind |-> kind, ty |-> ty, sub |-> 0, sub2 |-> 0, decl |-> "", op |-> "",
   glvalue |-> FALSE, targs |-> <<>>, member |-> NoValue]

DeclRefExpr(d, ty) == [Node("DeclRefExpr", ty) EXCEPT !.decl = d, !.glvalue = TRUE]
\* a reference to a function template specialization, with written arguments
DeclRefExprT(d, ty, targs) == [DeclRefExpr(d, ty) EXCEPT !.targs = targs]
ImplicitCastExpr(ck, sub, ty) ==
  [Node("ImplicitCastExpr", ty) EXCEPT !.op = ck, !.sub = sub]
LValueToRValue(sub, ty) == ImplicitCastExpr("CK_LValueToRValue", sub, ty)
UnaryOperator(op, sub, ty, gl) ==
  [Node("UnaryOperator", ty) EXCEPT !.op = op, !.sub = sub, !.glvalue = gl]
Deref(sub, ty) == UnaryOperator("UO_Deref", sub, ty, TRUE)
AddrOf(sub, ty) == UnaryOperator("UO_AddrOf", sub, ty, FALSE)
BinaryOperator(op, lhs, rhs, ty, gl) ==
  [Node("BinaryOperator", ty) EXCEPT !.op = op, !.sub = lhs, !.sub2 = rhs,
                                     !.glvalue = gl]
Assign(lhs, rhs, ty) == BinaryOperator("BO_Assign", lhs, rhs, ty, TRUE)
CallExpr(callee, ty, gl) ==
  [Node("CallExpr", ty) EXCEPT !.sub = callee, !.glvalue = gl]
\* the placeholder type of a member function that is being called
BoundMember == Builtin("<bound member function type>")
\* base.member for a member function whose declaration has the type ty
MemberExpr(base, ty) ==
  [Node("MemberExpr", BoundMember) EXCEPT !.sub = base, !.member = ty]
CXXMemberCallExpr(callee, ty) ==
  [Node("CXXMemberCallExpr", ty) EXCEPT !.sub = callee]
DeclStmt(d, ty, init) == [Node("DeclStmt", ty) EXCEPT !.decl = d, !.sub = init]
ReturnStmt(sub) == [Node("ReturnStmt", Builtin("void")) EXCEPT !.sub = sub]
Literal(kind, ty) == Node(kind, ty)
\* new T; nothrow: the allocation function may return null
\* (CXXNewExpr::shouldNullCheckAllocation)
CXXNewExpr(ty, nothrow) ==
  [Node("CXXNewExpr", ty) EXCEPT !.op = IF nothrow THEN "nothrow" ELSE "throw"]
CXXThisExpr(ty) == Node("CXXThisExpr", ty)
ArraySubscriptExpr(base, index, ty) ==
  [Node("ArraySubscriptExpr", ty) EXCEPT !.sub = base, !.sub2 = index,
                                         !.glvalue = TRUE]
MaterializeTemporaryExpr(sub, ty) ==
  [Node("MaterializeTemporaryExpr", ty) EXCEPT !.sub = sub, !.glvalue = TRUE]
CXXDynamicCastExpr(sub, ty) ==
  [Node("CXXDynamicCastExpr", ty) EXCEPT !.op = "CK_Dynamic", !.sub = sub]
\* a CFG element that is no statement (an initializer, a destructor call)
CFGOther == Node("CFGOther", Builtin("void"))

Param(d, ty) == [decl |-> d, ty |-> ty]
Block(elts, preds) == [elts |-> elts, preds |-> preds]
Edge(b, cond, neg) == [pred |-> b, cond |-> cond, negated |-> neg]

NoEdges == <<>>
\* function templates: the primary template of a function declaration
NoTemplates == << >>

\* test/basic.cc DerefNullPtr:  int *x = nullptr; *x;   (or: int *x = 0;)
DerefNullPtr(zero) ==
  [params |-> <<>>,
   nodes |-> <<IF zero THEN Literal("IntegerLiteral", IntTy)
               ELSE Literal("CXXNullPtrLiteralExpr", NullPtrT),
               ImplicitCastExpr("CK_NullToPointer", 1, Ptr(IntTy)),
               DeclStmt("x", Ptr(IntTy), 2),
               DeclRefExpr("x", Ptr(IntTy)),
               LValueToRValue(4, Ptr(IntTy)),
               Deref(5, IntTy)>>,
   blocks |-> <<Block(<<1, 2, 3, 4, 5, 6>>, NoEdges)>>,
   templates |-> NoTemplates]

\* test/basic.cc DerefAddrOf:  int i; int *x = &i; int *y = x; *y;
DerefAddrOf ==
  [params |-> <<>>,
   nodes |-> <<DeclStmt("i", IntTy, 0),
               DeclRefExpr("i", IntTy),
               AddrOf(2, Ptr(IntTy)),
               DeclStmt("x", Ptr(IntTy), 3),
               DeclRefExpr("x", Ptr(IntTy)),
               LValueToRValue(5, Ptr(IntTy)),
               DeclStmt("y", Ptr(IntTy), 6),
               DeclRefExpr("y", Ptr(IntTy)),
               LValueToRValue(8, Ptr(IntTy)),
               Deref(9, IntTy)>>,
   blocks |-> <<Block(<<1, 2, 3, 4, 5, 6, 7, 8, 9, 10>>, NoEdges)>>,
   templates |-> NoTemplates]

\* test/basic.cc Deref...WithoutACheck:  void target(int *a p) { *p; int *y = p; *y; }
DerefParam(a) ==
  LET T == APtr(a, IntTy) IN
  [params |-> <<Param("p", T)>>,
   nodes |-> <<DeclRefExpr("p", T), LValueToRValue(1, T), Deref(2, IntTy),
               DeclRefExpr("p", T), LValueToRValue(4, T),
               DeclStmt("y", Ptr(IntTy), 5),
               DeclRefExpr("y", Ptr(IntTy)),
               LValueToRValue(7, Ptr(IntTy)),
               Deref(8, IntTy)>>,
   blocks |-> <<Block(<<1, 2, 3, 4, 5, 6, 7, 8, 9>>, NoEdges)>>,
   templates |-> NoTemplates]

\* test/basic.cc DoubleDereference:  void target(int *b *a p) { *p; **p; }
DoubleDereference(a, b) ==
  LET Inner == APtr(b, IntTy)
      T == APtr(a, Inner) IN
  [params |-> <<Param("p", T)>>,
   nodes |-> <<DeclRefExpr("p", T), LValueToRValue(1, T), Deref(2, Inner),
               DeclRefExpr("p", T), LValueToRValue(4, T), Deref(5, Inner),
               LValueToRValue(6, Inner), Deref(7, IntTy)>>,
   blocks |-> <<Block(<<1, 2, 3, 4, 5, 6, 7, 8>>, NoEdges)>>,
   templates |-> NoTemplates]

\* test/basic.cc ArrowOperatorOnNullablePtr, with * for ->:
\*   void target(int *a p) { if (p) { *p; } else { *p; } *p; }
IfCheck(a) ==
  LET T == APtr(a, IntTy) IN
  [params |-> <<Param("p", T)>>,
   nodes |-> <<DeclRefExpr("p", T), LValueToRValue(1, T),
               ImplicitCastExpr("CK_PointerToBoolean", 2, BoolTy),
               DeclRefExpr("p", T), LValueToRValue(4, T), Deref(5, IntTy),
               DeclRefExpr("p", T), LValueToRValue(7, T), Deref(8, IntTy),
               DeclRefExpr("p", T), LValueToRValue(10, T), Deref(11, IntTy)>>,
   blocks |-> <<Block(<<1, 2, 3>>, NoEdges),
                Block(<<4, 5, 6>>, <<Edge(1, 3, FALSE)>>),
                Block(<<7, 8, 9>>, <<Edge(1, 3, TRUE)>>),
                Block(<<10, 11, 12>>, <<Edge(2, 0, FALSE), Edge(3, 0, FALSE)>>)>>,
   templates |-> NoTemplates]

\* pointer_nullability_analysis_test.cc:
\*   int *target(int *a p) { int *q = p; return q; }
Target(a) ==
  LET T == APtr(a, IntTy) IN
  [params |-> <<Param("p", T)>>,
   nodes |-> <<DeclRefExpr("p", T), LValueToRValue(1, T),
               DeclStmt("q", Ptr(IntTy), 2),
               DeclRefExpr("q", Ptr(IntTy)),
               LValueToRValue(4, Ptr(IntTy)),
               ReturnStmt(5)>>,
   blocks |-> <<Block(<<1, 2, 3, 4, 5, 6>>, NoEdges)>>,
   templates |-> NoTemplates]

\* a join of distinct values:
\*   void target(int *a p, int *b q, bool c, int i, int j) {
\*     int *r; int x;
\*     if (c) { r = p; x = i; } else { r = q; x = j; }
\*     *r;
\*   }
MergePtr(a, b) ==
  LET P == APtr(a, IntTy)
      Q == APtr(b, IntTy)
      R == Ptr(IntTy) IN
  [params |-> <<Param("p", P), Param("q", Q), Param("c", BoolTy),
                Param("i", IntTy), Param("j", IntTy)>>,
   nodes |-> <<DeclStmt("r", R, 0), DeclStmt("x", IntTy, 0),
               DeclRefExpr("c", BoolTy), LValueToRValue(3, BoolTy),
               \* then
               DeclRefExpr("r", R), DeclRefExpr("p", P), LValueToRValue(6, P),
               Assign(5, 7, R),
               DeclRefExpr("x", IntTy), DeclRefExpr("i", IntTy),
               LValueToRValue(10, IntTy), Assign(9, 11, IntTy),
               \* else
               DeclRefExpr("r", R), DeclRefExpr("q", Q), LValueToRValue(14, Q),
               Assign(13, 15, R),
               DeclRefExpr("x", IntTy), DeclRefExpr("j", IntTy),
               LValueToRValue(18, IntTy), Assign(17, 19, IntTy),
               \* after
               DeclRefExpr("r", R), LValueToRValue(21, R), Deref(22, IntTy)>>,
   blocks |-> <<Block(<<1, 2, 3, 4>>, NoEdges),
                Block(<<6, 7, 5, 8, 10, 11, 9, 12>>, <<Edge(1, 4, FALSE)>>),
                Block(<<14, 15, 13, 16, 18, 19, 17, 20>>, <<Edge(1, 4, TRUE)>>),
                Block(<<21, 22, 23>>, <<Edge(2, 0, FALSE), Edge(3, 0, FALSE)>>)>>,
   templates |-> NoTemplates]

\* a join of a pointer that is not null with a null pointer:
\*   void target(bool c) {
\*     int i; int *r;
\*     if (c) { r = &i; } else { r = nullptr; }
\*     *r;
\*   }
MergeLit ==
  LET R == Ptr(IntTy) IN
  [params |-> <<Param("c", BoolTy)>>,
   nodes |-> <<DeclStmt("i", IntTy, 0), DeclStmt("r", R, 0),
               DeclRefExpr("c", BoolTy), LValueToRValue(3, BoolTy),
               \* then
               DeclRefExpr("i", IntTy), AddrOf(5, R), DeclRefExpr("r", R),
               Assign(7, 6, R),
               \* else
               Literal("CXXNullPtrLiteralExpr", NullPtrT),
               ImplicitCastExpr("CK_NullToPointer", 9, R), DeclRefExpr("r", R),
               Assign(11, 10, R),
               \* after
               DeclRefExpr("r", R), LValueToRValue(13, R), Deref(14, IntTy)>>,
   blocks |-> <<Block(<<1, 2, 3, 4>>, NoEdges),
                Block(<<5, 6, 7, 8>>, <<Edge(1, 4, FALSE)>>),
                Block(<<9, 10, 11, 12>>, <<Edge(1, 4, TRUE)>>),
                Block(<<13, 14, 15>>, <<Edge(2, 0, FALSE), Edge(3, 0, FALSE)>>)>>,
   templates |-> NoTemplates]

\* joins after a null check of p:
\*   void target(int *a p) {
\*     int i; int *r;
\*     if (p) { r = p; } else { r = &i; }
\*     *r;
\*   }
MergeCheckedNotNull(a) ==
  LET T == APtr(a, IntTy)
      R == Ptr(IntTy) IN
  [params |-> <<Param("p", T)>>,
   nodes |-> <<DeclStmt("i", IntTy, 0), DeclStmt("r", R, 0),
               DeclRefExpr("p", T), LValueToRValue(3, T),
               ImplicitCastExpr("CK_PointerToBoolean", 4, BoolTy),
               \* then
               DeclRefExpr("p", T), LValueToRValue(6, T), DeclRefExpr("r", R),
               Assign(8, 7, R),
               \* else
               DeclRefExpr("i", IntTy), AddrOf(10, R), DeclRefExpr("r", R),
               Assign(12, 11, R),
               \* after
               DeclRefExpr("r", R), LValueToRValue(14, R), Deref(15, IntTy)>>,
   blocks |-> <<Block(<<1, 2, 3, 4, 5>>, NoEdges),
                Block(<<6, 7, 8, 9>>, <<Edge(1, 5, FALSE)>>),
                Block(<<10, 11, 12, 13>>, <<Edge(1, 5, TRUE)>>),
                Block(<<14, 15, 16>>, <<Edge(2, 0, FALSE), Edge(3, 0, FALSE)>>)>>,
   templates |-> NoTemplates]

\*   void target(int *a p) {
\*     int *r;
\*     if (p) { r = nullptr; } else { r = p; }
\*     *r;
\*   }
MergeCheckedNull(a) ==
  LET T == APtr(a, IntTy)
      R == Ptr(IntTy) IN
  [params |-> <<Param("p", T)>>,
   nodes |-> <<DeclStmt("r", R, 0),
               DeclRefExpr("p", T), LValueToRValue(2, T),
               ImplicitCastExpr("CK_PointerToBoolean", 3, BoolTy),
               \* then
               Literal("CXXNullPtrLiteralExpr", NullPtrT),
               ImplicitCastExpr("CK_NullToPointer", 5, R), DeclRefExpr("r", R),
               Assign(7, 6, R),
               \* else
               DeclRefExpr("p", T), LValueToRValue(9, T), DeclRefExpr("r", R),
               Assign(11, 10, R),
               \* after
               DeclRefExpr("r", R), LValueToRValue(13, R), Deref(14, IntTy)>>,
   blocks |-> <<Block(<<1, 2, 3, 4>>, NoEdges),
                Block(<<5, 6, 7, 8>>, <<Edge(1, 4, FALSE)>>),
                Block(<<9, 10, 11, 12>>, <<Edge(1, 4, TRUE)>>),
                Block(<<13, 14, 15>>, <<Edge(2, 0, FALSE), Edge(3, 0, FALSE)>>)>>,
   templates |-> NoTemplates]

\* the member calls of the example of substituteNullabilityAnnotationsInClassTemplate:
\*   template <class F, class S> struct P {
\*     S *_Nullable second();  F *_Nullable first(S);
\*   };
\*   void target(P<int *a, int *b> x) { x.second(); }
CallSecond(a, b) ==
  LET F == APtr(a, IntTy)
      S == APtr(b, IntTy)
      Ret == Attr(Nullable, Ptr(SubstTemplateTypeParmType(
                                  PDecl(F, S), 1, NoPackIndex, Canonical(S))))
  IN
  [params |-> <<Param("x", PType(F, S))>>,
   nodes |-> <<DeclRefExpr("x", PType(F, S)),
               MemberExpr(1, FunctionProto(Ret, <<>>)),
               CXXMemberCallExpr(2, Ret)>>,
   blocks |-> <<Block(<<1, 2, 3>>, NoEdges)>>,
   templates |-> NoTemplates]

\*   void target(P<int *a *, int *b> x, int *b q) { x.first(q); }
CallFirst(a, b) ==
  LET F == Ptr(APtr(a, IntTy))
      S == APtr(b, IntTy)
      Ret == Attr(Nullable, Ptr(SubstTemplateTypeParmType(
                                  PDecl(F, S), 0, NoPackIndex, Canonical(F))))
      Par == SubstTemplateTypeParmType(PDecl(F, S), 1, NoPackIndex, Canonical(S))
  IN
  [params |-> <<Param("x", PType(F, S)), Param("q", S)>>,
   nodes |-> <<DeclRefExpr("x", PType(F, S)),
               MemberExpr(1, FunctionProto(Ret, <<Par>>)),
               DeclRefExpr("q", S), LValueToRValue(3, S),
               CXXMemberCallExpr(2, Ret)>>,
   blocks |-> <<Block(<<1, 2, 3, 4, 5>>, NoEdges)>>,
   templates |-> NoTemplates]

\* test/nullability_test.h make():
\*   template <typename T> T make();  void target() { *make<int *a>(); }
\* the call's type is the substituted parameter T, whose replacement is the
\* canonical argument int*
CallMake(a) ==
  LET Written == APtr(a, IntTy)
      T == <<"subst", [name |-> "make<>"], 0, NoPackIndex, Ptr(IntTy)>>
      F == <<"fn", T, <<>>>> IN
  [params |-> <<>>,
   nodes |-> <<DeclRefExprT("make", F, <<Written>>),
               ImplicitCastExpr("CK_FunctionToPointerDecay", 1, Ptr(F)),
               CallExpr(2, T, FALSE),
               Deref(3, IntTy)>>,
   blocks |-> <<Block(<<1, 2, 3, 4>>, NoEdges)>>,
   templates |-> [d \in {"make"} |-> [name |-> "make<>"]]]

\* an operand without a rule of its own (the assignment):
\*   void target(int *a p) { int *r; int *y = r = p; *y; }
AssignChain(a) ==
  LET T == APtr(a, IntTy)
      R == Ptr(IntTy) IN
  [params |-> <<Param("p", T)>>,
   nodes |-> <<DeclStmt("r", R, 0), DeclRefExpr("r", R), DeclRefExpr("p", T),
               LValueToRValue(3, T), Assign(2, 4, R), LValueToRValue(5, R),
               DeclStmt("y", R, 6), DeclRefExpr("y", R), LValueToRValue(8, R),
               Deref(9, IntTy)>>,
   blocks |-> <<Block(<<1, 3, 4, 2, 5, 6, 7, 8, 9, 10>>, NoEdges)>>,
   templates |-> NoTemplates]

\* _Atomic(int *) a; int *b = a;  (the atomic type is no pointer position)
AtomicLoad ==
  LET A == Atomic(Ptr(IntTy)) IN
  [params |-> <<Param("a", A)>>,
   nodes |-> <<DeclRefExpr("a", A), LValueToRValue(1, A),
               ImplicitCastExpr("CK_AtomicToNonAtomic", 2, Ptr(IntTy)),
               DeclStmt("b", Ptr(IntTy), 3)>>,
   blocks |-> <<Block(<<1, 2, 3, 4>>, NoEdges)>>,
   templates |-> NoTemplates]

\* int *a p; _Atomic(int *) x = p; int *y = p;
AtomicStore(a) ==
  LET T == APtr(a, IntTy)
      A == Atomic(Ptr(IntTy)) IN
  [params |-> <<Param("p", T)>>,
   nodes |-> <<DeclRefExpr("p", T), LValueToRValue(1, T),
               ImplicitCastExpr("CK_NonAtomicToAtomic", 2, A),
               DeclStmt("x", A, 3),
               DeclRefExpr("p", T), LValueToRValue(5, T),
               DeclStmt("y", Ptr(IntTy), 6)>>,
   blocks |-> <<Block(<<1, 2, 3, 4, 5, 6, 7>>, NoEdges)>>,
   templates |-> NoTemplates]

\* struct Base {}; struct Derived : Base {};
\* void target(int *b *a p, int *a q, Derived *b d) {
\*   (void *)p; (char *_Nonnull *)p; (char **)q; (Base *)d; }
BitCasts(a, b) ==
  LET T2 == APtr(a, APtr(b, IntTy))
      T1 == APtr(a, IntTy)
      D == APtr(b, RecordType(CXXRecordDecl("Derived", nullptr, NoValue, FALSE)))
      B == Ptr(RecordType(CXXRecordDecl("Base", nullptr, NoValue, FALSE)))
      Char == Builtin("char") IN
  [params |-> <<Param("p", T2), Param("q", T1), Param("d", D)>>,
   nodes |-> <<DeclRefExpr("p", T2), LValueToRValue(1, T2),
               ImplicitCastExpr("CK_BitCast", 2, Ptr(Builtin("void"))),
               DeclRefExpr("p", T2), LValueToRValue(4, T2),
               ImplicitCastExpr("CK_BitCast", 5, Ptr(Attr(NonNull, Ptr(Char)))),
               DeclRefExpr("q", T1), LValueToRValue(7, T1),
               ImplicitCastExpr("CK_BitCast", 8, Ptr(Ptr(Char))),
               DeclRefExpr("d", D), LValueToRValue(10, D),
               ImplicitCastExpr("CK_DerivedToBase", 11, B)>>,
   blocks |-> <<Block(<<1, 2, 3, 4, 5, 6, 7, 8, 9, 10, 11, 12>>, NoEdges)>>,
   templates |-> NoTemplates]

\* int *b *a x = nullptr; nullptr_t n = 0;
NullInit(a, b) ==
  LET T == APtr(a, APtr(b, IntTy)) IN
  [params |-> <<>>,
   nodes |-> <<Literal("CXXNullPtrLiteralExpr", NullPtrT),
               ImplicitCastExpr("CK_NullToPointer", 1, T),
               DeclStmt("x", T, 2),
               Literal("IntegerLiteral", IntTy),
               ImplicitCastExpr("CK_NullToPointer", 4, NullPtrT),
               DeclStmt("n", NullPtrT, 5)>>,
   blocks |-> <<Block(<<1, 2, 3, 4, 5, 6>>, NoEdges)>>,
   templates |-> NoTemplates]

\* void target(int *a p, int *b q) { p == q; p != q; p == nullptr; }
Compare(a, b) ==
  LET T == APtr(a, IntTy)
      U == APtr(b, IntTy) IN
  [params |-> <<Param("p", T), Param("q", U)>>,
   nodes |-> <<DeclRefExpr("p", T), LValueToRValue(1, T),
               DeclRefExpr("q", U), LValueToRValue(3, U),
               BinaryOperator("BO_EQ", 2, 4, BoolTy, FALSE),
               DeclRefExpr("p", T), LValueToRValue(6, T),
               DeclRefExpr("q", U), LValueToRValue(8, U),
               BinaryOperator("BO_NE", 7, 9, BoolTy, FALSE),
               DeclRefExpr("p", T), LValueToRValue(11, T),
               Literal("CXXNullPtrLiteralExpr", NullPtrT),
               ImplicitCastExpr("CK_NullToPointer", 13, Ptr(IntTy)),
               BinaryOperator("BO_EQ", 12, 14, BoolTy, FALSE)>>,
   blocks |-> <<Block(<<1, 2, 3, 4, 5, 6, 7, 8, 9, 10, 11, 12, 13, 14, 15>>,
                      NoEdges)>>,
   templates |-> NoTemplates]

\* a call that returns a reference, of pointer type and of another type:
\*   int *a &get(); int &geti(); void target() { int *y = get(); geti(); }
CallRef(a) ==
  LET T == APtr(a, IntTy)
      F == FunctionProto(Ref(T), <<>>)
      G == FunctionProto(Ref(IntTy), <<>>) IN
  [params |-> <<>>,
   nodes |-> <<DeclRefExpr("get", F),
               ImplicitCastExpr("CK_FunctionToPointerDecay", 1, Ptr(F)),
               CallExpr(2, T, TRUE), LValueToRValue(3, T),
               DeclStmt("y", Ptr(IntTy), 4),
               DeclRefExpr("geti", G),
               ImplicitCastExpr("CK_FunctionToPointerDecay", 6, Ptr(G)),
               CallExpr(7, IntTy, TRUE)>>,
   blocks |-> <<Block(<<1, 2, 3, 4, 5, 6, 7, 8>>, NoEdges)>>,
   templates |-> NoTemplates]

\* subscript, new, this and dynamic_cast:
\*   struct S { virtual ~S(); void target(int *a *b p); }; struct D : S {};
\*   void S::target(int *a *b p) {
\*     p[0]; new int *a; new (std::nothrow) int; dynamic_cast<D *>(this);
\*   }
Positional(a, b) ==
  LET U == APtr(a, IntTy)
      T == APtr(b, U)
      S == RecordType(CXXRecordDecl("S", nullptr, NoValue, FALSE))
      D == RecordType(CXXRecordDecl("D", nullptr, NoValue, FALSE)) IN
  [params |-> <<Param("p", T)>>,
   nodes |-> <<DeclRefExpr("p", T), LValueToRValue(1, T),
               Literal("IntegerLiteral", IntTy),
               ArraySubscriptExpr(2, 3, U),
               CXXNewExpr(Ptr(U), FALSE),
               CXXNewExpr(Ptr(IntTy), TRUE),
               CXXThisExpr(Ptr(S)),
               CXXDynamicCastExpr(7, Ptr(D))>>,
   blocks |-> <<Block(<<1, 2, 3, 4, 5, 6, 7, 8>>, NoEdges)>>,
   templates |-> NoTemplates]

\* a null pointer constant converted to a block pointer:
\*   void (^a b)(void) = nullptr;
NullBlock(a) ==
  LET B == BlockPointer(FunctionProto(Builtin("void"), <<>>))
      T == IF a = NoKind THEN B ELSE Attr(a, B) IN
  [params |-> <<>>,
   nodes |-> <<Literal("CXXNullPtrLiteralExpr", NullPtrT),
               ImplicitCastExpr("CK_NullToPointer", 1, T),
               DeclStmt("b", T, 2)>>,
   blocks |-> <<Block(<<1, 2, 3>>, NoEdges)>>,
   templates |-> NoTemplates]

\* a temporary bound to a reference, and an element that is no statement
\* (the end of the lifetime of r):
\*   void target(int *a p) { const int *const &r = p; }
Elements(a) ==
  LET T == APtr(a, IntTy) IN
  [params |-> <<Param("p", T)>>,
   nodes |-> <<DeclRefExpr("p", T), LValueToRValue(1, T),
               ImplicitCastExpr("CK_NoOp", 2, Ptr(IntTy)),
               MaterializeTemporaryExpr(3, Ptr(IntTy)),
               DeclStmt("r", Ref(Ptr(IntTy)), 4),
               CFGOther>>,
   blocks |-> <<Block(<<1, 2, 3, 4, 5, 6>>, NoEdges)>>,
   templates |-> NoTemplates]

\* the functions the analysis is run on: a name and two annotations
Functions ==
  {<<"DerefNullPtr", NoKind, NoKind>>, <<"DerefZero", NoKind, NoKind>>,
   <<"DerefAddrOf", NoKind, NoKind>>, <<"AtomicLoad", NoKind, NoKind>>,
   <<"MergeLit", NoKind, NoKind>>}
  \cup {<<n, a, NoKind>> : n \in {"DerefParam", "IfCheck", "Target", "CallMake",
                                  "AssignChain", "MergeCheckedNotNull",
                                  "MergeCheckedNull", "AtomicStore",
                                  "CallRef", "NullBlock", "Elements"},
                           a \in Annotations}
  \cup {<<n, a, b>> : n \in {"MergePtr", "DoubleDereference", "CallSecond",
                                "CallFirst", "BitCasts", "NullInit", "Compare",
                                "Positional"},
                      a \in Annotations, b \in Annotations}

Program(f) ==
  CASE f[1] = "DerefNullPtr" -> DerefNullPtr(FALSE)
    [] f[1] = "DerefZero" -> DerefNullPtr(TRUE)
    [] f[1] = "DerefAddrOf" -> DerefAddrOf
    [] f[1] = "AtomicLoad" -> AtomicLoad
    [] f[1] = "MergeLit" -> MergeLit
    [] f[1] = "DerefParam" -> DerefParam(f[2])
    [] f[1] = "IfCheck" -> IfCheck(f[2])
    [] f[1] = "Target" -> Target(f[2])
    [] f[1] = "CallMake" -> CallMake(f[2])
    [] f[1] = "AssignChain" -> AssignChain(f[2])
    [] f[1] = "MergeCheckedNotNull" -> MergeCheckedNotNull(f[2])
    [] f[1] = "MergeCheckedNull" -> MergeCheckedNull(f[2])
    [] f[1] = "DoubleDereference" -> DoubleDereference(f[2], f[3])
    [] f[1] = "CallSecond" -> CallSecond(f[2], f[3])
    [] f[1] = "CallFirst" -> CallFirst(f[2], f[3])
    [] f[1] = "AtomicStore" -> AtomicStore(f[2])
    [] f[1] = "BitCasts" -> BitCasts(f[2], f[3])
    [] f[1] = "NullInit" -> NullInit(f[2], f[3])
    [] f[1] = "Compare" -> Compare(f[2], f[3])
    [] f[1] = "CallRef" -> CallRef(f[2])
    [] f[1] = "Positional" -> Positional(f[2], f[3])
    [] f[1] = "NullBlock" -> NullBlock(f[2])
    [] f[1] = "Elements" -> Elements(f[2])
    [] OTHER -> MergePtr(f[2], f[3])


(***************************************************************************)
(* Non-flow-sensitive transfer: the nullability vector of an expression.    *)
(* The lattice maps expressions (node ids) to vectors.  A rule returns the  *)
(* vector it computes together with the lattice, which it may have grown    *)
(* with the vectors of missing children.                                    *)
(***************************************************************************)
LatticeInit == [ExprNullability |-> << >>, DeclTopLevelNullability |-> << >>]

Computed(vec, L) == [vec |-> vec, L |-> L]

\* exprType(E): the type of the expression, or of the member declaration for
\* a bound member function
exprType(P, E) ==
  IF P.nodes[E].ty = BoundMember THEN P.nodes[E].member ELSE P.nodes[E].ty

unspecifiedNullability(P, E) ==
  UnspecifiedVector(countPointersInType(exprType(P, E)))

getExprNullability(L, E) ==
  IF E \in DOMAIN L.ExprNullability THEN L.ExprNullability[E] ELSE NoValue

\* PointerNullabilityLattice::insertExprNullabilityIfAbsent: Compute runs
\* only when E has no entry, and its result is stored for E
insertExprNullabilityIfAbsent(L, E, C) ==
  IF E \in DOMAIN L.ExprNullability THEN L
  ELSE [C.L EXCEPT !.ExprNullability = Put(@, E, C.vec)]

\* the length self-check of computeNullability
checkedUnchecked(P, E, C) == C

checked(P, E, C) ==
  LET ExpectedSize == countPointersInType(exprType(P, E))
  IN  IF ExpectedSize # Len(C.vec)
        THEN Computed(UnspecifiedVector(ExpectedSize), C.L)
        ELSE C

computeNullabilityEvicting(P, E, L, C) ==
  [C.L EXCEPT !.ExprNullability = Put(<< >>, E, checked(P, E, C).vec)]

computeNullability(P, E, L, C) ==
  insertExprNullabilityIfAbsent(L, E, checked(P, E, C))

getNullabilityForChildEmpty(P, E, L) ==
  IF E \in DOMAIN L.ExprNullability THEN Computed(L.ExprNullability[E], L)
  ELSE Computed(<<>>, [L EXCEPT !.ExprNullability = Put(@, E, <<>>)])

getNullabilityForChild(P, E, L) ==
  LET L2 == insertExprNullabilityIfAbsent(
              L, E, Computed(unspecifiedNullability(P, E), L))
  IN  Computed(L2.ExprNullability[E], L2)

\* Expr::IgnoreImpCasts
RECURSIVE IgnoreImpCasts(_, _)
IgnoreImpCasts(P, E) ==
  IF P.nodes[E].kind = "ImplicitCastExpr" THEN IgnoreImpCasts(P, P.nodes[E].sub)
  ELSE E

substituteNullabilityAnnotationsInFunctionTemplate(P, T, CE) ==
  LET Callee == P.nodes[IgnoreImpCasts(P, P.nodes[CE].sub)]
  IN  getNullabilityAnnotationsFromType(
        T, [kind |-> "function", callee |-> Callee,
            calleeIsDeclRef |-> Callee.kind = "DeclRefExpr",
            templates |-> P.templates])

transferNonFlowSensitiveDeclRefExpr(P, DRE, L) ==
  Computed(getNullabilityAnnotationsFromType(exprType(P, DRE), NoHook), L)

\* copy the operand's annotation at every depth at which both the operand's
\* and the cast's canonical type are pointers
RECURSIVE PreserveTopLevelPointers(_, _, _, _, _)
PreserveTopLevelPointersOnlyTop(V, ArgNullability, ArgType, CastType, I) ==
  IF ArgType[1] = "ptr" /\ CastType[1] = "ptr" /\ I = 1
    THEN [V EXCEPT ![I] = ArgNullability[I]]
    ELSE V

PreserveTopLevelPointers(V, ArgNullability, ArgType, CastType, I) ==
  IF ArgType[1] = "ptr" /\ CastType[1] = "ptr"
    THEN PreserveTopLevelPointers([V EXCEPT ![I] = ArgNullability[I]],
                                  ArgNullability, ArgType[2], CastType[2], I + 1)
    ELSE V

PrimitiveCasts ==
  {"CK_ToVoid", "CK_MemberPointerToBoolean", "CK_PointerToBoolean",
   "CK_PointerToIntegral", "CK_IntegralCast", "CK_IntegralToBoolean",
   "CK_IntegralToFloating", "CK_FloatingToFixedPoint",
   "CK_FixedPointToFloating", "CK_FixedPointCast", "CK_FixedPointToIntegral",
   "CK_IntegralToFixedPoint", "CK_FixedPointToBoolean",
   "CK_FloatingToIntegral", "CK_FloatingToBoolean",
   "CK_BooleanToSignedIntegral", "CK_FloatingCast",
   "CK_FloatingRealToComplex", "CK_FloatingComplexToReal",
   "CK_FloatingComplexToBoolean", "CK_FloatingComplexCast",
   "CK_FloatingComplexToIntegralComplex", "CK_IntegralRealToComplex",
   "CK_IntegralComplexToReal", "CK_IntegralComplexToBoolean",
   "CK_IntegralComplexCast", "CK_IntegralComplexToFloatingComplex"}

transferNonFlowSensitiveCastExpr(P, CE, L) ==
  LET CK == P.nodes[CE].op
      Sub == P.nodes[CE].sub
      Ty == exprType(P, CE)
      Child == getNullabilityForChild(P, Sub, L)
  IN  CASE CK \in {"CK_LValueBitCast", "CK_BitCast", "CK_LValueToRValueBitCast",
                   "CK_BaseToDerived", "CK_DerivedToBase",
                   "CK_UncheckedDerivedToBase"} ->
             Computed(PreserveTopLevelPointers(
                        unspecifiedNullability(P, CE), Child.vec,
                        Canonical(exprType(P, Sub)), Canonical(Ty), 1),
                      Child.L)
        [] CK \in {"CK_LValueToRValue", "CK_NoOp", "CK_AtomicToNonAtomic",
                   "CK_NonAtomicToAtomic", "CK_AddressSpaceConversion",
                   "CK_BuiltinFnToFnPtr"} -> Child
        [] CK = "CK_Dynamic" ->
             Computed(IF Canonical(Ty)[1] = "ptr"
                        THEN SetFront(unspecifiedNullability(P, CE), Nullable)
                        ELSE unspecifiedNullability(P, CE), L)
        [] CK \in PrimitiveCasts -> Computed(<<>>, L)
        [] CK = "CK_NullToPointer" ->
             Computed(IF ~isNullPtrType(Ty)
                        THEN SetFront(getNullabilityAnnotationsFromType(
                                        Ty, NoHook), Nullable)
                        ELSE getNullabilityAnnotationsFromType(Ty, NoHook), L)
        [] CK \in {"CK_ArrayToPointerDecay", "CK_FunctionToPointerDecay"} ->
             Computed(prepend(NonNull, Child.vec), Child.L)
        [] OTHER -> Computed(unspecifiedNullability(P, CE), L)

substituteNullabilityAnnotationsInClassTemplate(T, BaseAnnotations, BaseType) ==
  getNullabilityAnnotationsFromType(
    T, [kind |-> "class", BaseType |-> BaseType,
        BaseNullabilityAnnotations |-> BaseAnnotations])

transferNonFlowSensitiveMemberExpr(P, ME, L) ==
  LET Substituted(BaseNullability) ==
        Computed(substituteNullabilityAnnotationsInClassTemplate(
                   IF P.nodes[ME].ty = BoundMember THEN P.nodes[ME].member
                   ELSE P.nodes[ME].ty,
                   BaseNullability.vec, P.nodes[P.nodes[ME].sub].ty),
                 BaseNullability.L)
  IN  Substituted(getNullabilityForChild(P, P.nodes[ME].sub, L))

\* ArrayRef::take_front
take_front(V, N) == IF N >= Len(V) THEN V ELSE SubSeq(V, 1, N)

transferNonFlowSensitiveMemberCallExpr(P, MCE, L) ==
  LET Front(Callee) ==
        Computed(take_front(Callee.vec, countPointersInType(exprType(P, MCE))),
                 Callee.L)
  IN  Front(getNullabilityForChild(P, P.nodes[MCE].sub, L))

transferNonFlowSensitiveCallExpr(P, CE, L) ==
  Computed(substituteNullabilityAnnotationsInFunctionTemplate(
             P, exprType(P, CE), CE), L)

transferNonFlowSensitiveUnaryOperator(P, UO, L) ==
  LET Op == P.nodes[UO].op
      Child == getNullabilityForChild(P, P.nodes[UO].sub, L)
  IN  CASE Op = "UO_AddrOf" -> Computed(prepend(NonNull, Child.vec), Child.L)
        [] Op = "UO_Deref" -> Computed(drop_front(Child.vec), Child.L)
        [] Op = "UO_Coawait" -> Computed(unspecifiedNullability(P, UO), L)
        [] OTHER -> Child

transferNonFlowSensitiveMaterializeTemporaryExpr(P, MTE, L) ==
  getNullabilityForChild(P, P.nodes[MTE].sub, L)

transferNonFlowSensitiveNewExpr(P, NE, L) ==
  Computed(SetFront(getNullabilityAnnotationsFromType(P.nodes[NE].ty, NoHook),
                    IF P.nodes[NE].op = "nothrow" THEN Nullable ELSE NonNull), L)

transferNonFlowSensitiveArraySubscriptExpr(P, ASE, L) ==
  LET Sliced(BaseNullability) ==
        Computed(slice(BaseNullability.vec, 1), BaseNullability.L)
  IN  Sliced(getNullabilityForChild(P, P.nodes[ASE].sub, L))

transferNonFlowSensitiveThisExpr(P, TE, L) ==
  Computed(SetFront(getNullabilityAnnotationsFromType(P.nodes[TE].ty, NoHook),
                    NonNull), L)

\* the kinds of node that are a CastExpr
CastExprKinds == {"ImplicitCastExpr", "CXXDynamicCastExpr"}

\* the cases of a CFGMatchSwitch in the order they were added; the switch
\* runs the first case whose matcher accepts the statement, and no case for
\* an element that is not a statement
FirstMatch(Table, Accepting) ==
  IF Accepting = {} THEN "none"
  ELSE Table[CHOOSE i \in Accepting : \A j \in Accepting : i <= j]

\* a table that asks the generic call case before the member call case
NonFlowSensitiveTableCallFirst ==
  <<"DeclRefExpr", "MemberExpr", "CallExpr", "MemberCallExpr", "CastExpr",
    "MaterializeTemporaryExpr", "UnaryOperator", "NewExpr",
    "ArraySubscriptExpr", "ThisExpr">>

\* buildNonFlowSensitiveTransferer: the cases in table order
NonFlowSensitiveTable ==
  <<"DeclRefExpr", "MemberExpr", "MemberCallExpr", "CastExpr",
    "MaterializeTemporaryExpr", "CallExpr", "UnaryOperator", "NewExpr",
    "ArraySubscriptExpr", "ThisExpr">>

\* the matcher of a case: the class of the statement
NonFlowSensitiveMatches(R, P, E) ==
  LET K == P.nodes[E].kind IN
  CASE R = "DeclRefExpr" -> K = "DeclRefExpr"
    [] R = "MemberExpr" -> K = "MemberExpr"
    [] R = "MemberCallExpr" -> K = "CXXMemberCallExpr"
    [] R = "CastExpr" -> K \in CastExprKinds
    [] R = "MaterializeTemporaryExpr" -> K = "MaterializeTemporaryExpr"
    [] R = "CallExpr" -> K \in {"CallExpr", "CXXMemberCallExpr"}
    [] R = "UnaryOperator" -> K = "UnaryOperator"
    [] R = "NewExpr" -> K = "CXXNewExpr"
    [] R = "ArraySubscriptExpr" -> K = "ArraySubscriptExpr"
    [] R = "ThisExpr" -> K = "CXXThisExpr"

NonFlowSensitiveRule(P, E) ==
  FirstMatch(NonFlowSensitiveTable,
             {i \in 1..Len(NonFlowSensitiveTable) :
                NonFlowSensitiveMatches(NonFlowSensitiveTable[i], P, E)})

NonFlowSensitiveTransferer(P, E, L) ==
  LET R == NonFlowSensitiveRule(P, E) IN
  CASE R = "DeclRefExpr" ->
         computeNullability(P, E, L, transferNonFlowSensitiveDeclRefExpr(P, E, L))
    [] R = "CastExpr" ->
         computeNullability(P, E, L, transferNonFlowSensitiveCastExpr(P, E, L))
    [] R = "MemberExpr" ->
         computeNullability(P, E, L, transferNonFlowSensitiveMemberExpr(P, E, L))
    [] R = "MemberCallExpr" ->
         computeNullability(P, E, L,
                            transferNonFlowSensitiveMemberCallExpr(P, E, L))
    [] R = "CallExpr" ->
         computeNullability(P, E, L, transferNonFlowSensitiveCallExpr(P, E, L))
    [] R = "UnaryOperator" ->
         computeNullability(P, E, L, transferNonFlowSensitiveUnaryOperator(P, E, L))
    [] R = "MaterializeTemporaryExpr" ->
         computeNullability(
           P, E, L, transferNonFlowSensitiveMaterializeTemporaryExpr(P, E, L))
    [] R = "NewExpr" ->
         computeNullability(P, E, L, transferNonFlowSensitiveNewExpr(P, E, L))
    [] R = "ArraySubscriptExpr" ->
         computeNullability(
           P, E, L, transferNonFlowSensitiveArraySubscriptExpr(P, E, L))
    [] R = "ThisExpr" ->
         computeNullability(P, E, L, transferNonFlowSensitiveThisExpr(P, E, L))
    [] OTHER -> L

\* the number of leading levels at which both canonical types are pointers:
\* the positions 0 .. depth-1 that PreserveTopLevelPointers copies
RECURSIVE CopiedDepth(_, _)
CopiedDepth(ArgType, CastType) ==
  IF ArgType[1] = "ptr" /\ CastType[1] = "ptr"
    THEN 1 + CopiedDepth(ArgType[2], CastType[2])
    ELSE 0

\* the slices that the member rule takes of the vector of its base
MemberExprSlices(P, ME, L) ==
  LET Of(BaseNullability) ==
        Visit(IF P.nodes[ME].ty = BoundMember THEN P.nodes[ME].member
              ELSE P.nodes[ME].ty,
              [WalkerInit EXCEPT !.Hook =
                 [kind |-> "class", BaseType |-> P.nodes[P.nodes[ME].sub].ty,
                  BaseNullabilityAnnotations |-> BaseNullability.vec]]).Slices
  IN  Of(getNullabilityForChild(P, P.nodes[ME].sub, L))

\* the rule that computes the vector of E (it runs only when E has no entry)
\* reads or writes a position that the vector does not have: front(),
\* drop_front() and slice(1) on an empty vector, V[I] or ArgNullability[I]
\* with I not below the size, slice(N, M) with N + M above the size
OutOfRangeAccess(P, E, L) ==
  LET N == P.nodes[E]
      R == NonFlowSensitiveRule(P, E)
      Child == getNullabilityForChild(P, N.sub, L).vec
  IN  /\ E \notin DOMAIN L.ExprNullability
      /\ CASE R = "UnaryOperator" /\ N.op = "UO_Deref" -> Child = <<>>
            [] R = "ArraySubscriptExpr" -> Child = <<>>
            [] R \in {"NewExpr", "ThisExpr"} ->
                 getNullabilityAnnotationsFromType(N.ty, NoHook) = <<>>
            [] R = "CastExpr" /\ N.op = "CK_Dynamic" ->
                 Canonical(N.ty)[1] = "ptr" /\ unspecifiedNullability(P, E) = <<>>
            [] R = "CastExpr" /\ N.op = "CK_NullToPointer" ->
                 /\ ~isNullPtrType(N.ty)
                 /\ getNullabilityAnnotationsFromType(N.ty, NoHook) = <<>>
            [] R = "CastExpr"
                 /\ N.op \in {"CK_LValueBitCast", "CK_BitCast",
                               "CK_LValueToRValueBitCast", "CK_BaseToDerived",
                               "CK_DerivedToBase", "CK_UncheckedDerivedToBase"} ->
                 \E Depth \in {CopiedDepth(Canonical(exprType(P, N.sub)),
                                            Canonical(N.ty))} :
                   \/ Depth > Len(unspecifiedNullability(P, E))
                   \/ Depth > Len(Child)
            [] R = "MemberExpr" ->
                 \E Slices \in {MemberExprSlices(P, E, L)} :
                   \E i \in 1..Len(Slices) :
                     Slices[i][2] + Slices[i][3] > Len(Child)
            [] OTHER -> FALSE


(***************************************************************************)
(* Values and storage locations of the environment.                         *)
(***************************************************************************)
\* a location allocator that hands out the last location again
createStorageLocationAgain(S) == S

\* Environment::createStorageLocation(QualType): a new location every time
createStorageLocation(S) == [S EXCEPT !.Arena.nextLoc = @ + 1]
LastLoc(S) == <<"anon", S.Arena.nextLoc - 1>>

\* Arena::create<PointerValue>(PointeeLoc)
createPointerValue(S, PointeeLoc) ==
  [S EXCEPT !.Arena.nextVal = @ + 1,
            !.Arena.PointeeLoc = Put(@, PointerValue(S.Arena.nextVal), PointeeLoc)]
LastPointerValue(S) == PointerValue(S.Arena.nextVal - 1)

\* Environment::createValue(Type): a new value, or none for a type the
\* framework does not model; a pointer value comes with a new pointee
\* location, which holds a new value of the pointee type
RECURSIVE createValue(_, _)
createValue(S, T) ==
  LET C == Canonical(T) IN
  CASE C[1] = "ptr" ->
         LET S1 == createStorageLocation(S)
             PointeeLoc == LastLoc(S1)
             R == createValue(S1, C[2])
             S2 == IF R.val # NoValue THEN setValue(R.S, PointeeLoc, R.val)
                   ELSE R.S
             S3 == createPointerValue(S2, PointeeLoc)
         IN  [S |-> S3, val |-> LastPointerValue(S3)]
    [] C = BoolTy ->
         LET S1 == makeAtomicBoolValue(S) IN [S |-> S1, val |-> LastAtom(S1)]
    [] C = IntTy ->
         [S |-> [S EXCEPT !.Arena.nextVal = @ + 1],
          val |-> OtherValue(S.Arena.nextVal)]
    [] OTHER -> [S |-> S, val |-> NoValue]

(***************************************************************************)
(* Flow-sensitive transfer: the null state of pointer values.               *)
(***************************************************************************)
getPointerNullabilityTypeOnly(P, E, L) ==
  value_or(getNullability(P.nodes[E].ty), Unspecified)

getPointerNullability(P, E, L) ==
  LET Nullability == getNullability(P.nodes[E].ty)
      MaybeNullability == getExprNullability(L, E)
  IN  IF value_or(Nullability, Unspecified) = Unspecified
           /\ MaybeNullability # NoValue /\ MaybeNullability # <<>>
        THEN MaybeNullability[1]
        ELSE value_or(Nullability, Unspecified)

initPointerFromAnnotationsNullableAsUnknown(S, PointerVal, P, E) ==
  LET Nullability == getPointerNullability(P, E, S.Lattice) IN
  CASE Nullability = NonNull -> initNotNullPointer(S, PointerVal)
    [] OTHER -> initUnknownPointer(S, PointerVal)

initPointerFromAnnotations(S, PointerVal, P, E) ==
  LET Nullability == getPointerNullability(P, E, S.Lattice) IN
  CASE Nullability = NonNull -> initNotNullPointer(S, PointerVal)
    [] Nullability = Nullable -> initNullablePointer(S, PointerVal)
    [] OTHER -> initUnknownPointer(S, PointerVal)

transferFlowSensitiveNullPointerAsUnknown(S, P, NullPointer) ==
  LET PointerVal == getPointerValueFromExpr(NullPointer, S.Env) IN
  IF PointerVal # NoValue THEN initUnknownPointer(S, PointerVal) ELSE S

transferFlowSensitiveNullPointer(S, P, NullPointer) ==
  LET PointerVal == getPointerValueFromExpr(NullPointer, S.Env) IN
  IF PointerVal # NoValue THEN initNullPointer(S, PointerVal) ELSE S

transferFlowSensitiveNotNullPointerAsUnknown(S, P, NotNullPointer) ==
  LET PointerVal == getPointerValueFromExpr(NotNullPointer, S.Env) IN
  IF PointerVal # NoValue THEN initUnknownPointer(S, PointerVal) ELSE S

transferFlowSensitiveNotNullPointerAsNullable(S, P, NotNullPointer) ==
  LET PointerVal == getPointerValueFromExpr(NotNullPointer, S.Env) IN
  IF PointerVal # NoValue THEN initNullablePointer(S, PointerVal) ELSE S

transferFlowSensitiveNotNullPointer(S, P, NotNullPointer) ==
  LET PointerVal == getPointerValueFromExpr(NotNullPointer, S.Env) IN
  IF PointerVal # NoValue THEN initNotNullPointer(S, PointerVal) ELSE S

hasOverriddenNullability(P, E, L) ==
  /\ P.nodes[E].kind \in {"DeclRefExpr", "MemberExpr"}
  /\ P.nodes[E].decl \in DOMAIN L.DeclTopLevelNullability

getOverriddenNullability(P, E, L) == L.DeclTopLevelNullability[P.nodes[E].decl]

transferFlowSensitivePointerNoImplication(S, P, PointerExpr) ==
  LET PointerVal == getPointerValueFromExpr(PointerExpr, S.Env) IN
  IF PointerVal = NoValue THEN S
  ELSE IF hasOverriddenNullability(P, PointerExpr, S.Lattice)
    THEN LET Override == getOverriddenNullability(P, PointerExpr, S.Lattice)
         IN  initPointerNullState(S, PointerVal,
                                  makeOr(Override.Nonnull, Override.Nullable),
                                  NoValue)
    ELSE initPointerFromAnnotations(S, PointerVal, P, PointerExpr)

transferFlowSensitivePointerExclusive(S, P, PointerExpr) ==
  LET PointerVal == getPointerValueFromExpr(PointerExpr, S.Env) IN
  IF PointerVal = NoValue THEN S
  ELSE IF hasOverriddenNullability(P, PointerExpr, S.Lattice)
    THEN LET Override == getOverriddenNullability(P, PointerExpr, S.Lattice)
             Bound(S1) ==
               addToFlowCondition(
                 addToFlowCondition(
                   S1, makeImplication(
                         Override.Nonnull,
                         makeNot(getPointerNullState(S1.Arena, PointerVal)[2]))),
                 makeNot(makeAnd(Override.Nonnull, Override.Nullable)))
         IN  Bound(initPointerNullState(
                     S, PointerVal,
                     makeOr(Override.Nonnull, Override.Nullable), NoValue))
    ELSE initPointerFromAnnotations(S, PointerVal, P, PointerExpr)

transferFlowSensitivePointer(S, P, PointerExpr) ==
  LET PointerVal == getPointerValueFromExpr(PointerExpr, S.Env) IN
  IF PointerVal = NoValue THEN S
  ELSE IF hasOverriddenNullability(P, PointerExpr, S.Lattice)
    THEN LET Override == getOverriddenNullability(P, PointerExpr, S.Lattice)
             S1 == initPointerNullState(
                     S, PointerVal,
                     makeOr(Override.Nonnull, Override.Nullable), NoValue)
             IsNull == getPointerNullState(S1.Arena, PointerVal)[2]
         IN  addToFlowCondition(
               S1, makeImplication(Override.Nonnull, makeNot(IsNull)))
    ELSE initPointerFromAnnotations(S, PointerVal, P, PointerExpr)

transferFlowSensitiveNullCheckImplicitCastPtrToBoolNotNegated(S, P, CastExpr) ==
  LET PointerVal ==
        getPointerValueFromExpr(IgnoreImpCasts(P, CastExpr), S.Env) IN
  IF PointerVal = NoValue THEN S
  ELSE setValueStrict(S, CastExpr, getPointerNullState(S.Arena, PointerVal)[2])

\* CastExpr->IgnoreImplicit() is the pointer operand under the implicit casts
transferFlowSensitiveNullCheckImplicitCastPtrToBool(S, P, CastExpr) ==
  LET PointerVal ==
        getPointerValueFromExpr(IgnoreImpCasts(P, CastExpr), S.Env) IN
  IF PointerVal = NoValue THEN S
  ELSE setValueStrict(S, CastExpr,
                      makeNot(getPointerNullState(S.Arena, PointerVal)[2]))

transferFlowSensitiveNullCheckComparisonBothNotNull(S, P, BinaryOp) ==
  LET PointerComparison == getValue(S.Env, BinaryOp)
      PointerNE == IF P.nodes[BinaryOp].op = "BO_EQ"
                     THEN makeNot(PointerComparison) ELSE PointerComparison
      LHS == getPointerValueFromExpr(P.nodes[BinaryOp].sub, S.Env)
      RHS == getPointerValueFromExpr(P.nodes[BinaryOp].sub2, S.Env)
  IN  IF LHS = NoValue \/ RHS = NoValue THEN S
      ELSE addToFlowCondition(
             S, makeImplication(
                  makeAnd(makeNot(getPointerNullState(S.Arena, LHS)[2]),
                          makeNot(getPointerNullState(S.Arena, RHS)[2])),
                  PointerNE))

\* the value of the comparison is the one the framework gave it; the three
\* constraints relate it to the is_null properties of the operands
transferFlowSensitiveNullCheckComparison(S, P, BinaryOp) ==
  LET PointerComparison == getValue(S.Env, BinaryOp)
      IsEQ == P.nodes[BinaryOp].op = "BO_EQ"
      PointerEQ == IF IsEQ THEN PointerComparison ELSE makeNot(PointerComparison)
      PointerNE == IF IsEQ THEN makeNot(PointerComparison) ELSE PointerComparison
      LHS == getPointerValueFromExpr(P.nodes[BinaryOp].sub, S.Env)
      RHS == getPointerValueFromExpr(P.nodes[BinaryOp].sub2, S.Env)
  IN  IF LHS = NoValue \/ RHS = NoValue THEN S
      ELSE LET LHSNull == getPointerNullState(S.Arena, LHS)[2]
               RHSNull == getPointerNullState(S.Arena, RHS)[2]
               LHSNotNull == makeNot(LHSNull)
               RHSNotNull == makeNot(RHSNull)
           IN  addToFlowCondition(
                 addToFlowCondition(
                   addToFlowCondition(
                     S, makeImplication(makeAnd(LHSNull, RHSNull), PointerEQ)),
                   makeImplication(makeAnd(LHSNull, RHSNotNull), PointerNE)),
                 makeImplication(makeAnd(LHSNotNull, RHSNull), PointerNE))

\* the call rule binding the value to the expression, whatever its category
transferFlowSensitiveCallExprToExpr(S, P, CE) ==
  LET N == P.nodes[CE] IN
  IF ~isAnyPointerType(N.ty) THEN S
  ELSE LET R == createValue(S, Canonical(N.ty))
       IN  setValueStrict(initPointerFromAnnotations(R.S, R.val, P, CE),
                          CE, R.val)

transferFlowSensitiveCallExpr(S, P, CE) ==
  LET N == P.nodes[CE]
      HadLoc == getStorageLocation(S.Env, CE) # NoValue
      S1 == IF N.glvalue /\ ~HadLoc
              THEN LET S0 == createStorageLocation(S)
                   IN  setStorageLocation(S0, CE, LastLoc(S0))
              ELSE S
      Loc == IF N.glvalue THEN getStorageLocation(S1.Env, CE) ELSE NoValue
  IN  IF ~isAnyPointerType(N.ty) THEN S1
      ELSE LET Existing == getPointerValueFromExpr(CE, S1.Env)
               R == IF Existing = NoValue THEN createValue(S1, Canonical(N.ty))
                    ELSE [S |-> S1, val |-> Existing]
               S2 == initPointerFromAnnotations(R.S, R.val, P, CE)
           IN  IF Loc # NoValue THEN setValue(S2, Loc, R.val)
               ELSE setValueStrict(S2, CE, R.val)

IsExpr(N) == N.kind \notin {"DeclStmt", "ReturnStmt", "CFGOther"}

\* buildFlowSensitiveTransferer: the first case that matches the statement
FlowSensitiveTable ==
  <<"NotNullPointer", "NullPointer", "CallExpr", "Pointer",
    "NullCheckComparison", "NullCheckImplicitCastPtrToBool">>

\* the matchers isAddrOf, isNullPointerLiteral, isCallExpr, isPointerExpr,
\* isPointerCheckBinOp and isImplicitCastPointerToBool
FlowSensitiveMatches(R, P, E) ==
  LET N == P.nodes[E] IN
  CASE R = "NotNullPointer" -> N.kind = "UnaryOperator" /\ N.op = "UO_AddrOf"
    [] R = "NullPointer" ->
         /\ N.kind = "ImplicitCastExpr"
         /\ N.op \in {"CK_NullToPointer", "CK_NullToMemberPointer"}
    [] R = "CallExpr" -> N.kind \in {"CallExpr", "CXXMemberCallExpr"}
    [] R = "Pointer" -> IsExpr(N) /\ isAnyPointerType(N.ty)
    [] R = "NullCheckComparison" ->
         /\ N.kind = "BinaryOperator" /\ N.op \in {"BO_EQ", "BO_NE"}
         /\ isAnyPointerType(P.nodes[N.sub].ty)
         /\ isAnyPointerType(P.nodes[N.sub2].ty)
    [] R = "NullCheckImplicitCastPtrToBool" ->
         N.kind = "ImplicitCastExpr" /\ N.op = "CK_PointerToBoolean"

FlowSensitiveRule(P, E) ==
  FirstMatch(FlowSensitiveTable,
             {i \in 1..Len(FlowSensitiveTable) :
                FlowSensitiveMatches(FlowSensitiveTable[i], P, E)})

FlowSensitiveTransferer(S, P, E) ==
  LET R == FlowSensitiveRule(P, E) IN
  CASE R = "NotNullPointer" -> transferFlowSensitiveNotNullPointer(S, P, E)
    [] R = "NullPointer" -> transferFlowSensitiveNullPointer(S, P, E)
    [] R = "CallExpr" -> transferFlowSensitiveCallExpr(S, P, E)
    [] R = "Pointer" -> transferFlowSensitivePointer(S, P, E)
    [] R = "NullCheckComparison" ->
         transferFlowSensitiveNullCheckComparison(S, P, E)
    [] R = "NullCheckImplicitCastPtrToBool" ->
         transferFlowSensitiveNullCheckImplicitCastPtrToBool(S, P, E)
    [] OTHER -> S

transferFlowSensitiveFirst(S, P, E) ==
  [FlowSensitiveTransferer(S, P, E)
     EXCEPT !.Lattice = NonFlowSensitiveTransferer(P, E, S.Lattice)]

\* PointerNullabilityAnalysis::transfer on a statement element
transfer(S, P, E) ==
  FlowSensitiveTransferer(
    [S EXCEPT !.Lattice = NonFlowSensitiveTransferer(P, E, S.Lattice)], P, E)

(***************************************************************************)
(* Merge of two values at a join.                                           *)
(***************************************************************************)
\* mergeBoolValues: the merged handle and the state of the merged environment
mergeBoolValuesAlwaysFresh(S, Bool1, Tok1, Bool2, Tok2) ==
  LET S1 == makeAtomicBoolValue(S)
      MergedBool == LastAtom(S1)
  IN  [S |-> addToFlowCondition(S1,
               makeOr(makeAnd(Atom(Tok1), makeIff(MergedBool, Bool1)),
                      makeAnd(Atom(Tok2), makeIff(MergedBool, Bool2)))),
       val |-> MergedBool]

mergeBoolValuesNotImplied(S, Bool1, Tok1, Bool2, Tok2) ==
  IF Bool1 = Bool2 THEN [S |-> S, val |-> Bool1]
  ELSE
    LET Merged(S1, MergedBool) ==
          [S |-> addToFlowCondition(S1,
                   makeOr(makeAnd(Atom(Tok1), makeIff(MergedBool, Bool1)),
                          makeAnd(Atom(Tok2), makeIff(MergedBool, Bool2)))),
           val |-> MergedBool]
    IN  Merged(makeAtomicBoolValue(S), Atom(S.Arena.nextAtom))

mergeBoolValues(S, Bool1, Tok1, Bool2, Tok2) ==
  IF Bool1 = Bool2 THEN [S |-> S, val |-> Bool1]
  ELSE
    LET S1 == makeAtomicBoolValue(S)
        MergedBool == LastAtom(S1)
        A == S.Arena
    IN  IF flowConditionImplies(A, Tok1, Bool1)
             /\ flowConditionImplies(A, Tok2, Bool2)
          THEN [S |-> addToFlowCondition(S1, MergedBool), val |-> MergedBool]
        ELSE IF flowConditionImplies(A, Tok1, makeNot(Bool1))
                  /\ flowConditionImplies(A, Tok2, makeNot(Bool2))
          THEN [S |-> addToFlowCondition(S1, makeNot(MergedBool)),
                val |-> MergedBool]
        ELSE [S |-> addToFlowCondition(S1,
                      makeOr(makeAnd(Atom(Tok1), makeIff(MergedBool, Bool1)),
                             makeAnd(Atom(Tok2), makeIff(MergedBool, Bool2)))),
              val |-> MergedBool]

\* PointerNullabilityAnalysis::merge: S is the merged environment, Tok1 and
\* Tok2 the flow condition tokens of the joined environments
mergeKnownOnly(S, Type, Val1, Tok1, Val2, Tok2, MergedVal) ==
  IF ~isAnyPointerType(Type) THEN [S |-> S, merged |-> FALSE]
  ELSE
    LET St1 == getPointerNullState(S.Arena, Val1)
        St2 == getPointerNullState(S.Arena, Val2)
        Known == mergeBoolValues(S, St1[1], Tok1, St2[1], Tok2)
    IN  [S |-> initPointerBoolProperty(Known.S, MergedVal, "Known", Known.val),
         merged |-> TRUE]

mergeUntracked(S, Type, Val1, Tok1, Val2, Tok2, MergedVal) ==
  IF ~isAnyPointerType(Type) THEN [S |-> S, merged |-> TRUE]
  ELSE IF ~hasPointerNullState(S.Arena, Val1)
            \/ ~hasPointerNullState(S.Arena, Val2)
    THEN [S |-> initUnknownPointer(S, MergedVal), merged |-> TRUE]
  ELSE
    LET St1 == getPointerNullState(S.Arena, Val1)
        St2 == getPointerNullState(S.Arena, Val2)
        Known == mergeBoolValues(S, St1[1], Tok1, St2[1], Tok2)
        Null == mergeBoolValues(Known.S, St1[2], Tok1, St2[2], Tok2)
    IN  [S |-> initPointerNullState(Null.S, MergedVal, Known.val, Null.val),
         merged |-> TRUE]

merge(S, Type, Val1, Tok1, Val2, Tok2, MergedVal) ==
  IF ~isAnyPointerType(Type) THEN [S |-> S, merged |-> FALSE]
  ELSE IF ~hasPointerNullState(S.Arena, Val1)
            \/ ~hasPointerNullState(S.Arena, Val2)
    THEN [S |-> S, merged |-> FALSE]
  ELSE
    LET St1 == getPointerNullState(S.Arena, Val1)
        St2 == getPointerNullState(S.Arena, Val2)
        WithNull(Known, Null) ==
          [S |-> initPointerNullState(Null.S, MergedVal, Known.val, Null.val),
           merged |-> TRUE]
        WithKnown(Known) ==
          WithNull(Known, mergeBoolValues(Known.S, St1[2], Tok1, St2[2], Tok2))
    IN  WithKnown(mergeBoolValues(S, St1[1], Tok1, St2[1], Tok2))


(***************************************************************************)
(* The dataflow framework that drives the analysis: environments, the       *)
(* built-in transfer of each statement kind, and the join of environments.  *)
(***************************************************************************)
DeclLoc(d) == <<"decl", d>>

\* DataflowAnalysisContext::forkFlowCondition, on copying an environment
forkFlowCondition(S) ==
  LET S1 == makeAtomicBoolValue(S)
      ForkToken == S1.Arena.nextAtom - 1
      Token == S.Env.FlowConditionToken
  IN  [S1 EXCEPT !.Arena.FlowConditionDeps = Put(@, ForkToken, {Token}),
                 !.Arena.FlowConditionConstraints =
                    Put(@, ForkToken, <<Atom(Token)>>),
                 !.Env.FlowConditionToken = ForkToken]

\* DataflowAnalysisContext::joinFlowConditions
joinFlowConditions(S, FirstToken, SecondToken) ==
  LET S1 == makeAtomicBoolValue(S)
      Token == S1.Arena.nextAtom - 1
  IN  [S1 EXCEPT !.Arena.FlowConditionDeps =
                    Put(@, Token, {FirstToken, SecondToken}),
                 !.Arena.FlowConditionConstraints =
                    Put(@, Token, <<makeOr(Atom(FirstToken), Atom(SecondToken))>>),
                 !.Env.FlowConditionToken = Token]

EmptyEnv ==
  [FlowConditionToken |-> 0, DeclToLoc |-> {}, ExprToLoc |-> << >>,
   LocToVal |-> << >>, ReturnVal |-> NoValue]

\* a declaration gets its storage location and a new value of its type
initDecl(S, d, ty) ==
  LET S1 == [S EXCEPT !.Env.DeclToLoc = @ \cup {d}]
      R == createValue(S1, ty)
  IN  IF R.val # NoValue THEN setValue(R.S, DeclLoc(d), R.val) ELSE R.S

RECURSIVE initParams(_, _, _)
initParams(S, Params, i) ==
  IF i > Len(Params) THEN S
  ELSE initParams(initDecl(S, Params[i].decl, Params[i].ty), Params, i + 1)

\* Environment(DACtx, Func): a new flow condition token and the parameters
Environment(L, A, P) ==
  LET S0 == makeAtomicBoolValue([Lattice |-> L, Env |-> EmptyEnv, Arena |-> A])
      S1 == [S0 EXCEPT !.Env.FlowConditionToken = S0.Arena.nextAtom - 1]
  IN  initParams(S1, P.params, 1)

\* DataflowAnalysisContext::getOrCreateNullPointerValue(PointeeType)
getOrCreateNullPointerValue(S, PointeeType) ==
  IF PointeeType \in DOMAIN S.Arena.NullPointerVals
    THEN [S |-> S, val |-> S.Arena.NullPointerVals[PointeeType]]
    ELSE LET S1 == createPointerValue(createStorageLocation(S),
                                      LastLoc(createStorageLocation(S)))
         IN  [S |-> [S1 EXCEPT !.Arena.NullPointerVals =
                                  Put(@, PointeeType, LastPointerValue(S1))],
              val |-> LastPointerValue(S1)]

\* the framework's transfer of a cast
builtinTransferCast(S, P, E) ==
  LET N == P.nodes[E] IN
  CASE N.op = "CK_LValueToRValue" ->
         IF getValue(S.Env, N.sub) = NoValue THEN S
         ELSE setValueStrict(S, E, getValue(S.Env, N.sub))
    [] N.op \in {"CK_NullToPointer", "CK_NullToMemberPointer"} ->
         LET S1 == createStorageLocation(S)
             R == getOrCreateNullPointerValue(
                    setStorageLocation(S1, E, LastLoc(S1)),
                    getPointeeType(Canonical(N.ty)))
         IN  setValue(R.S, LastLoc(S1), R.val)
    [] N.op \in {"CK_NoOp", "CK_IntegralCast", "CK_UncheckedDerivedToBase",
                 "CK_ConstructorConversion", "CK_UserDefinedConversion"} ->
         IF getStorageLocation(S.Env, N.sub) = NoValue THEN S
         ELSE setStorageLocation(S, E, getStorageLocation(S.Env, N.sub))
    [] OTHER -> S

\* the framework's transfer of a statement, before the analysis' transfer
builtinTransfer(S, P, E) ==
  LET N == P.nodes[E] IN
  CASE N.kind = "DeclRefExpr" ->
         IF N.decl \in S.Env.DeclToLoc
           THEN setStorageLocation(S, E, DeclLoc(N.decl)) ELSE S
    [] N.kind = "ImplicitCastExpr" -> builtinTransferCast(S, P, E)
    [] N.kind = "UnaryOperator" /\ N.op = "UO_Deref" ->
         LET SubExprVal == getPointerValueFromExpr(N.sub, S.Env)
         IN  IF SubExprVal = NoValue THEN S
             ELSE setStorageLocation(S, E, getPointeeLoc(S.Arena, SubExprVal))
    [] N.kind = "UnaryOperator" /\ N.op = "UO_AddrOf" ->
         IF getStorageLocation(S.Env, N.sub) = NoValue THEN S
         ELSE LET S1 == createPointerValue(S, getStorageLocation(S.Env, N.sub))
              IN  setValueStrict(S1, E, LastPointerValue(S1))
    [] N.kind = "BinaryOperator" /\ N.op = "BO_Assign" ->
         IF getStorageLocation(S.Env, N.sub) = NoValue
              \/ getValue(S.Env, N.sub2) = NoValue THEN S
         ELSE setStorageLocation(
                setValue(S, getStorageLocation(S.Env, N.sub),
                         getValue(S.Env, N.sub2)),
                E, getStorageLocation(S.Env, N.sub))
    [] N.kind = "BinaryOperator" /\ N.op \in {"BO_EQ", "BO_NE"} ->
         LET S1 == makeAtomicBoolValue(S)
         IN  setValueStrict(S1, E, LastAtom(S1))
    [] N.kind = "MaterializeTemporaryExpr" ->
         IF getValue(S.Env, N.sub) = NoValue THEN S
         ELSE LET S1 == createStorageLocation(S)
              IN  setValue(setStorageLocation(S1, E, LastLoc(S1)), LastLoc(S1),
                           getValue(S.Env, N.sub))
    [] N.kind = "DeclStmt" ->
         IF N.sub # 0 /\ getValue(S.Env, N.sub) # NoValue
           THEN setValue([S EXCEPT !.Env.DeclToLoc = @ \cup {N.decl}],
                         DeclLoc(N.decl), getValue(S.Env, N.sub))
           ELSE initDecl(S, N.decl, N.ty)
    [] N.kind = "ReturnStmt" ->
         IF getValue(S.Env, N.sub) = NoValue THEN S
         ELSE [S EXCEPT !.Env.ReturnVal = getValue(S.Env, N.sub)]
    [] OTHER -> S

\* one CFG statement: the framework's transfer, then the analysis' transfer
transferCFGStmt(S, P, E) == transfer(builtinTransfer(S, P, E), P, E)

\* the state at the exit of a predecessor, copied and extended with the
\* condition of its terminator
predecessorState(S, Out, P, edge) ==
  LET S1 == forkFlowCondition([S EXCEPT !.Env = Out[edge.pred]])
      Cond == getValue(S1.Env, edge.cond)
  IN  IF edge.cond = 0 THEN S1
      ELSE addToFlowCondition(S1, IF edge.negated THEN makeNot(Cond) ELSE Cond)

\* the type of the values stored at a location
LocType(P, Loc) ==
  CASE Loc[1] = "expr" -> P.nodes[Loc[2]].ty
    [] Loc[1] = "decl" ->
         LET ps == {i \in 1..Len(P.params) : P.params[i].decl = Loc[2]}
             ns == {i \in 1..Len(P.nodes) :
                      P.nodes[i].kind = "DeclStmt" /\ P.nodes[i].decl = Loc[2]}
         IN  IF ps # {} THEN P.params[CHOOSE i \in ps : TRUE].ty
             ELSE P.nodes[CHOOSE i \in ns : TRUE].ty
    [] OTHER -> IntTy

isBoolValue(v) == v[1] \in {"atom", "lit", "not", "and", "or", "imp", "iff"}

\* a call of the analysis' merge, as seen by the framework
MergeCall(Type, Val1, Tok1, Val2, Tok2, MergedVal, Before, Result) ==
  [Type |-> Type, Val1 |-> Val1, Tok1 |-> Tok1, Val2 |-> Val2, Tok2 |-> Tok2,
   MergedVal |-> MergedVal, Before |-> Before.Arena, After |-> Result.S.Arena,
   merged |-> Result.merged]

\* mergeDistinctValues: the value of the joined environment for two distinct
\* values, or none; calls records the call of the analysis' merge if any
mergeDistinctValues(S, Type, Val1, Tok1, Val2, Tok2) ==
  IF isBoolValue(Val1) /\ isBoolValue(Val2)
    THEN LET S1 == makeAtomicBoolValue(S)
             MergedVal == LastAtom(S1)
         IN  [S |-> addToFlowCondition(S1,
                      makeOr(makeAnd(Atom(Tok1), makeIff(MergedVal, Val1)),
                             makeAnd(Atom(Tok2), makeIff(MergedVal, Val2)))),
              val |-> MergedVal, calls |-> <<>>]
    ELSE LET Merged(R, M) ==
               [S |-> M.S, val |-> IF M.merged THEN R.val ELSE NoValue,
                calls |-> <<MergeCall(Type, Val1, Tok1, Val2, Tok2, R.val,
                                      R.S, M)>>]
             Created(R) ==
               IF R.val = NoValue THEN [S |-> R.S, val |-> NoValue, calls |-> <<>>]
               ELSE Merged(R, merge(R.S, Type, Val1, Tok1, Val2, Tok2, R.val))
         IN  Created(createValue(S, Type))

\* the locations of a set in a fixed order
RECURSIVE InOrder(_)
InOrder(Locs) ==
  IF Locs = {} THEN <<>>
  ELSE LET l == CHOOSE x \in Locs : TRUE IN <<l>> \o InOrder(Locs \ {l})

\* the joined environment keeps the merged value of a location, if there is
\* one
setMergedValue(Loc, R, Calls) ==
  [S |-> IF R.val = NoValue THEN R.S ELSE setValue(R.S, Loc, R.val),
   calls |-> Calls \o R.calls]

\* the values of the joined environment, location by location; J holds the
\* joined environment so far and the calls of merge made for it
RECURSIVE joinValues(_, _, _, _, _)
joinValues(J, P, EnvA, EnvB, Locs) ==
  IF Locs = <<>> THEN J
  ELSE
    LET Loc == Head(Locs)
        ValA == EnvA.LocToVal[Loc]
        ValB == EnvB.LocToVal[Loc]
    IN  IF ValA = ValB
          THEN joinValues([J EXCEPT !.S = setValue(J.S, Loc, ValA)],
                          P, EnvA, EnvB, Tail(Locs))
          ELSE joinValues(
                 setMergedValue(Loc,
                   mergeDistinctValues(J.S, LocType(P, Loc),
                                       ValA, EnvA.FlowConditionToken,
                                       ValB, EnvB.FlowConditionToken),
                   J.calls),
                 P, EnvA, EnvB, Tail(Locs))

\* Environment::join: S holds the first environment; the result holds the
\* joined one
join(S, P, EnvB) ==
  LET EnvA == S.Env
      Common == {e \in DOMAIN EnvA.ExprToLoc \cap DOMAIN EnvB.ExprToLoc :
                   EnvA.ExprToLoc[e] = EnvB.ExprToLoc[e]}
      S1 == joinFlowConditions(
              [S EXCEPT !.Env =
                 [EmptyEnv EXCEPT
                    !.DeclToLoc = EnvA.DeclToLoc \cap EnvB.DeclToLoc,
                    !.ExprToLoc = [e \in Common |-> EnvA.ExprToLoc[e]],
                    !.ReturnVal = IF EnvA.ReturnVal = EnvB.ReturnVal
                                    THEN EnvA.ReturnVal ELSE NoValue]],
              EnvA.FlowConditionToken, EnvB.FlowConditionToken)
  IN  joinValues([S |-> S1, calls |-> <<>>], P, EnvA, EnvB,
                 InOrder(DOMAIN EnvA.LocToVal \cap DOMAIN EnvB.LocToVal))

\* the state at the entry of a block: the join of its predecessors' states
RECURSIVE joinPredecessors(_, _, _, _, _)
joinPredecessors(R, Out, P, Edges, i) ==
  IF i > Len(Edges) THEN R
  ELSE
    LET Joined(J) == [S |-> J.S, calls |-> R.calls \o J.calls]
        With(Pred) ==
          IF i = 1 THEN [S |-> Pred, calls |-> <<>>]
          ELSE Joined(join([Pred EXCEPT !.Env = R.S.Env], P, Pred.Env))
    IN  joinPredecessors(With(predecessorState(R.S, Out, P, Edges[i])),
                         Out, P, Edges, i + 1)

computeBlockInputState(S, Out, P, b) ==
  joinPredecessors([S |-> S, calls |-> <<>>], Out, P, P.blocks[b].preds, 1)


assignNullabilityVariableAgain(L, A, D) ==
  [L |-> [L EXCEPT !.DeclTopLevelNullability =
            Put(@, D, [Nonnull |-> Atom(A.nextAtom),
                       Nullable |-> Atom(A.nextAtom + 1)])],
   A |-> [A EXCEPT !.nextAtom = @ + 2]]

\* PointerNullabilityAnalysis::assignNullabilityVariable
assignNullabilityVariable(L, A, D) ==
  IF D \in DOMAIN L.DeclTopLevelNullability THEN [L |-> L, A |-> A]
  ELSE [L |-> [L EXCEPT !.DeclTopLevelNullability =
                 Put(@, D, [Nonnull |-> Atom(A.nextAtom),
                            Nullable |-> Atom(A.nextAtom + 1)])],
        A |-> [A EXCEPT !.nextAtom = @ + 2]]

\* the variables of pointer type a function declares
PointerDecls(P) ==
  {P.params[i].decl : i \in {j \in 1..Len(P.params) :
                               isAnyPointerType(P.params[j].ty)}}
  \cup {P.nodes[i].decl : i \in {j \in 1..Len(P.nodes) :
                                   P.nodes[j].kind = "DeclStmt"
                                   /\ isAnyPointerType(P.nodes[j].ty)}}

(***************************************************************************)
(* The state machine: a function is chosen, nullability variables may be    *)
(* assigned to its declarations, and the analysis is run over its CFG, one  *)
(* statement at a time, block after block.                                  *)
(***************************************************************************)
VARIABLES func, phase, run, block, idx, Lattice, Env, Arena, BlockOut,
          assignCalls, Assigned, Merges, InitFrom, Overridden,
          \* a call of the type walker and of the rebuilder: the type and the
          \* hook, the vector, and what each of them returned
          walkInput, walkVector, walker, rebuilder

\* the value of walker and of rebuilder before the call
NotCalled == [kind |-> "none"]

analysisVars == <<func, phase, run, block, idx, Lattice, Env, Arena, BlockOut,
                  assignCalls, Assigned, Merges, InitFrom, Overridden>>
typeVars == <<walkInput, walkVector, walker, rebuilder>>
vars == <<analysisVars, typeVars>>

Prog == Program(func)
State == [Lattice |-> Lattice, Env |-> Env, Arena |-> Arena]
Elts == Prog.blocks[block].elts

Init ==
  /\ func \in Functions
  /\ phase = "setup"
  /\ run = 0
  /\ block = 0
  /\ idx = 0
  /\ Lattice = LatticeInit
  /\ Env = EmptyEnv
  /\ Arena = ArenaInit
  /\ BlockOut = << >>
  /\ assignCalls = 0
  /\ Assigned = <<>>
  /\ Merges = <<>>
  /\ InitFrom = << >>
  /\ Overridden = {}
  /\ walkInput = NotCalled
  /\ walkVector = <<>>
  /\ walker = NotCalled
  /\ rebuilder = NotCalled

\* a call of assignNullabilityVariable on the analysis, before a run or
\* between two runs; Assigned is the declaration and the pair it returned
AssignNullabilityVariable ==
  /\ phase \in {"setup", "done"}
  /\ assignCalls < MaxAssignCalls
  /\ \E D \in PointerDecls(Prog) :
       \E R \in {assignNullabilityVariable(Lattice, Arena, D)} :
         /\ Lattice' = R.L
         /\ Arena' = R.A
         /\ Assigned' = <<D, R.L.DeclTopLevelNullability[D]>>
  /\ assignCalls' = assignCalls + 1
  /\ UNCHANGED <<func, phase, run, block, idx, Env, BlockOut, Merges, InitFrom,
                 Overridden>>
  /\ UNCHANGED typeVars

\* runDataflowAnalysis with a new Environment for the function
RunDataflowAnalysis ==
  /\ phase \in {"setup", "done"}
  /\ run < MaxRuns
  /\ LET S == Environment(Lattice, Arena, Prog)
     IN  /\ Env' = S.Env
         /\ Arena' = S.Arena
  /\ phase' = "run"
  /\ run' = run + 1
  /\ block' = 1
  /\ idx' = 1
  /\ BlockOut' = << >>
  /\ Merges' = <<>>
  /\ Overridden' = {}
  /\ UNCHANGED <<func, Lattice, assignCalls, Assigned, InitFrom>>
  /\ UNCHANGED typeVars

\* the pointer values whose null state a step has initialised, with the
\* statement and the rule that did it
Initialised(S, T, P, E) ==
  [V \in DOMAIN T.Arena.Known \ DOMAIN S.Arena.Known |->
     [expr |-> E, rule |-> FlowSensitiveRule(P, E),
      override |-> hasOverriddenNullability(P, E, T.Lattice),
      run |-> run]]

\* the pointer value a step has applied a declaration's variables to, with
\* the declaration and the block of the step
Referred(T, P, E) ==
  IF FlowSensitiveRule(P, E) = "Pointer"
       /\ hasOverriddenNullability(P, E, T.Lattice)
       /\ getPointerValueFromExpr(E, T.Env) # NoValue
    THEN {<<getPointerValueFromExpr(E, T.Env), P.nodes[E].decl, block>>}
    ELSE {}

TransferStmt ==
  /\ phase = "run"
  /\ idx <= Len(Elts)
  /\ \E T \in {transferCFGStmt(State, Prog, Elts[idx])} :
       \E New \in {Initialised(State, T, Prog, Elts[idx])} :
         /\ Lattice' = T.Lattice
         /\ Env' = T.Env
         /\ Arena' = T.Arena
         /\ InitFrom' = [V \in DOMAIN InitFrom \cup DOMAIN New |->
                           IF V \in DOMAIN New THEN New[V] ELSE InitFrom[V]]
         /\ Overridden' = Overridden \cup Referred(T, Prog, Elts[idx])
  /\ idx' = idx + 1
  /\ UNCHANGED <<func, phase, run, block, BlockOut, assignCalls, Assigned,
                 Merges>>
  /\ UNCHANGED typeVars

NextBlock ==
  /\ phase = "run"
  /\ idx > Len(Elts)
  /\ block < Len(Prog.blocks)
  /\ BlockOut' = Put(BlockOut, block, Env)
  /\ \E R \in {computeBlockInputState(State, Put(BlockOut, block, Env),
                                        Prog, block + 1)} :
       /\ Env' = R.S.Env
       /\ Arena' = R.S.Arena
       /\ Merges' = R.calls
  /\ block' = block + 1
  /\ idx' = 1
  /\ UNCHANGED <<func, phase, run, Lattice, assignCalls, Assigned, InitFrom,
                 Overridden>>
  /\ UNCHANGED typeVars

\* an access outside a vector is undefined behaviour: a build with assertions
\* or a hardened library stops the program there; any other build goes on
\* (TransferStmt) with the vector the rule returns
Abort ==
  /\ phase = "run"
  /\ idx <= Len(Elts)
  /\ OutOfRangeAccess(Prog, Elts[idx], Lattice)
  /\ phase' = "aborted"
  /\ UNCHANGED <<func, run, block, idx, Lattice, Env, Arena, BlockOut,
                 assignCalls, Assigned, Merges, InitFrom, Overridden>>
  /\ UNCHANGED typeVars

FinishRun ==
  /\ phase = "run"
  /\ idx > Len(Elts)
  /\ block = Len(Prog.blocks)
  /\ BlockOut' = Put(BlockOut, block, Env)
  /\ phase' = "done"
  /\ UNCHANGED <<func, run, block, idx, Lattice, Env, Arena, assignCalls,
                 Assigned, Merges, InitFrom, Overridden>>
  /\ UNCHANGED typeVars

Next ==
  \/ AssignNullabilityVariable
  \/ RunDataflowAnalysis
  \/ TransferStmt
  \/ Abort
  \/ NextBlock
  \/ FinishRun

Spec == Init /\ [][Next]_vars

(***************************************************************************)
(* The type walker and the rebuilder as functions: one call of each on a    *)
(* type and a vector of the length of the type.                             *)
(***************************************************************************)
\* the vectors of n annotations
RECURSIVE Vectors(_)
Vectors(n) ==
  IF n = 0 THEN {<<>>}
  ELSE {prepend(NK, V) : NK \in NullabilityKind, V \in Vectors(n - 1)}

TypeInit ==
  /\ func = <<"DerefAddrOf", NoKind, NoKind>>
  /\ phase = "setup"
  /\ run = 0
  /\ block = 0
  /\ idx = 0
  /\ Lattice = LatticeInit
  /\ Env = EmptyEnv
  /\ Arena = ArenaInit
  /\ BlockOut = << >>
  /\ assignCalls = 0
  /\ Assigned = <<>>
  /\ Merges = <<>>
  /\ InitFrom = << >>
  /\ Overridden = {}
  /\ walkInput \in WalkInputs
  /\ walkVector \in Vectors(countPointersInType(Canonical(walkInput.T)))
  /\ walker = NotCalled
  /\ rebuilder = NotCalled

\* getNullabilityAnnotationsFromType(T, SubstituteTypeParam): the walker
\* after the walk
GetNullabilityAnnotationsFromType ==
  /\ walker = NotCalled
  /\ walker' = Visit(walkInput.T, [WalkerInit EXCEPT !.Hook = walkInput.Hook])
  /\ UNCHANGED <<analysisVars, walkInput, walkVector, rebuilder>>

\* rebuildWithNullability(T, Nullability, Ctx) on a type without hook, then
\* the annotations read back from the type it returned
RebuildWithNullability ==
  /\ rebuilder = NotCalled
  /\ walkInput.Hook = NoHook
  /\ \E R \in {rebuildWithNullability(walkInput.T, walkVector)} :
       rebuilder' = [ty |-> R.ty, short |-> R.short, long |-> R.long,
                     annotations |->
                       getNullabilityAnnotationsFromType(R.ty, NoHook)]
  /\ UNCHANGED <<analysisVars, walkInput, walkVector, walker>>

TypeNext == GetNullabilityAnnotationsFromType \/ RebuildWithNullability

TypeSpec == TypeInit /\ [][TypeNext]_vars


(***************************************************************************)
(* Diagnosis of a dereference, in the state after its statement.            *)
(***************************************************************************)
\* the statement TransferStmt has just transferred
Transferred(E) == phase = "run" /\ idx > 1 /\ Elts[idx - 1] = E

\* the dereference is reported when its operand has no pointer value or a
\* value that may be null
diagnoseDereference(S, P, UO) ==
  LET V == getPointerValueFromExpr(P.nodes[UO].sub, S.Env)
  IN  V = NoValue \/ isNullable(S, V)

(***************************************************************************)
(* Properties.                                                              *)
(***************************************************************************)
\* C1: every vector stored in ExprNullability has as many entries as the
\* type of its expression has pointers, whether a rule stored it through
\* computeNullability or getNullabilityForChild stored it for an operand the
\* analysis has not visited.
LengthInvariant ==
  \A e \in DOMAIN Lattice.ExprNullability :
     Len(Lattice.ExprNullability[e]) = countPointersInType(exprType(Prog, e))

\* the assignment of AssignChain has no rule: its vector was stored for it
\* when its parent was transferred; the cast of AtomicLoad has the vector the
\* length check put in place of its operand's empty one
LengthWitnessChild ==
  /\ func[1] = "AssignChain"
  /\ 5 \in DOMAIN Lattice.ExprNullability
  /\ Lattice.ExprNullability[5] = <<Unspecified>>
  /\ NonFlowSensitiveRule(Prog, 5) = "none"

\* C2: ExprNullability is write-once: a mapped expression stays mapped with
\* the same vector, and a second run of the analysis over the same CFG
\* leaves ExprNullability as the first run left it.
WriteOnce ==
  [][/\ \A e \in DOMAIN Lattice.ExprNullability :
          /\ e \in DOMAIN Lattice'.ExprNullability
          /\ Lattice'.ExprNullability[e] = Lattice.ExprNullability[e]
     /\ run >= 2 => Lattice'.ExprNullability = Lattice.ExprNullability]_vars

SecondRunDone ==
  /\ run = 2
  /\ phase = "done"
  /\ Cardinality(DOMAIN Lattice.ExprNullability) >= 2

\* C3: in if (p) A else B the condition's value is the negation of p's
\* is_null; in A the flow condition implies that p is not null and the
\* dereference is not reported; in B it implies that p is null and the
\* dereference of a _Nullable p is reported; after the join the dereference
\* of a _Nullable p is reported again.
NullCheckByConversion ==
  func[1] = "IfCheck" =>
    LET IsNull == Arena.Null[getValueAt(Env, DeclLoc("p"))]
        NullableParam == func[2] = Nullable
                           /\ "p" \notin DOMAIN Lattice.DeclTopLevelNullability
    IN  /\ Transferred(3) => getValue(Env, 3) = makeNot(IsNull)
        /\ Transferred(6) => /\ EnvImplies(State, makeNot(IsNull))
                             /\ ~diagnoseDereference(State, Prog, 6)
        /\ Transferred(9) =>
             /\ EnvImplies(State, IsNull)
             /\ (NullableParam => diagnoseDereference(State, Prog, 9))
        /\ (Transferred(12) /\ NullableParam) =>
             diagnoseDereference(State, Prog, 12)

NullCheckWitness ==
  /\ func = <<"IfCheck", Nullable, NoKind>>
  /\ "p" \notin DOMAIN Lattice.DeclTopLevelNullability
  /\ Transferred(12)
  /\ diagnoseDereference(State, Prog, 12)
  /\ ~EnvImplies([State EXCEPT !.Env = BlockOut[2]], getBoolLiteralValue(FALSE))

\* C4: once a null pointer literal that has a pointer value is transferred,
\* the flow condition implies is_known and is_null of that value, and the
\* dereference of a variable initialised from the literal is reported.
NullLiteralIsNull ==
  /\ \A E \in 1..Len(Prog.nodes) :
       (Transferred(E) /\ FlowSensitiveRule(Prog, E) = "NullPointer"
          /\ getPointerValueFromExpr(E, Env) # NoValue) =>
         LET St == getPointerNullState(Arena, getPointerValueFromExpr(E, Env))
         IN  EnvImplies(State, St[1]) /\ EnvImplies(State, St[2])
  /\ (func[1] \in {"DerefNullPtr", "DerefZero"} /\ Transferred(6)) =>
       diagnoseDereference(State, Prog, 6)

NullLiteralWitness ==
  /\ func[1] = "DerefZero"
  /\ Transferred(6)
  /\ diagnoseDereference(State, Prog, 6)
  /\ getValue(Env, 5) = getValue(Env, 2)
  /\ ~EnvImplies(State, getBoolLiteralValue(FALSE))


\* the effective top-level nullability of a pointer expression
EffectiveNullability(P, E, L) ==
  LET Sugar == getNullability(P.nodes[E].ty) IN
  IF Sugar \in {NonNull, Nullable} THEN Sugar
  ELSE IF E \in DOMAIN L.ExprNullability /\ L.ExprNullability[E] # <<>>
    THEN L.ExprNullability[E][1]
  ELSE Unspecified

\* the pointer values whose null state was initialised from annotations
FromAnnotations ==
  {V \in DOMAIN InitFrom : /\ InitFrom[V].rule \in {"Pointer", "CallExpr"}
                           /\ ~InitFrom[V].override}



\* C5: without an override the null state of a pointer value is initialised
\* from the effective nullability of the expression (the sugar of its type
\* if NonNull or Nullable, else the first entry of its vector, else
\* Unspecified): NonNull as not null, Nullable as nullable, Unspecified as
\* unknown; a dereference of the pointer or of a copy, with no check on the
\* way, is reported exactly if the effective nullability is Nullable.
InitFromEffectiveNullability ==
  /\ \A V \in FromAnnotations :
       LET K == EffectiveNullability(Prog, InitFrom[V].expr, Lattice)
           St == getPointerNullState(Arena, V)
       IN  /\ K = NonNull =>
                St = <<getBoolLiteralValue(TRUE), getBoolLiteralValue(FALSE)>>
           /\ K = Nullable =>
                St[1] = getBoolLiteralValue(TRUE) /\ St[2][1] = "atom"
           /\ K = Unspecified =>
                St[1] = getBoolLiteralValue(FALSE) /\ St[2][1] = "atom"
  /\ \A E \in 1..Len(Prog.nodes) :
       (/\ Transferred(E)
        /\ Len(Prog.blocks) = 1
        /\ Prog.nodes[E].kind = "UnaryOperator" /\ Prog.nodes[E].op = "UO_Deref"
        /\ getPointerValueFromExpr(Prog.nodes[E].sub, Env) \in FromAnnotations) =>
         LET V == getPointerValueFromExpr(Prog.nodes[E].sub, Env)
         IN  diagnoseDereference(State, Prog, E)
               <=> EffectiveNullability(Prog, InitFrom[V].expr, Lattice) = Nullable

\* the call of make<int * _Nullable>() has no sugar on its type: its
\* nullability comes from its vector, and its dereference is reported
EffectiveFromVectorWitness ==
  /\ func = <<"CallMake", Nullable, NoKind>>
  /\ Transferred(4)
  /\ getNullability(Prog.nodes[3].ty) = NoKind
  /\ Lattice.ExprNullability[3] = <<Nullable>>
  /\ getPointerValueFromExpr(3, Env) \in FromAnnotations
  /\ diagnoseDereference(State, Prog, 4)

Undetermined(S, B) == ~EnvImplies(S, B) /\ ~EnvImplies(S, makeNot(B))

\* the relation between a declaration's variables and a value's null state
BoundToVariables(S, V, Override) ==
  LET St == getPointerNullState(S.Arena, V) IN
  /\ EnvImplies(S, makeImplication(Override.Nonnull, makeNot(St[2])))
  /\ EnvImplies(S, makeIff(makeOr(Override.Nonnull, Override.Nullable), St[1]))

NoneDetermined(S, V, Override) ==
  LET St == getPointerNullState(S.Arena, V) IN
  /\ Undetermined(S, Override.Nonnull)
  /\ Undetermined(S, Override.Nullable)
  /\ Undetermined(S, St[1])
  /\ Undetermined(S, St[2])

Tracked == {V \in DOMAIN Arena.Known : V \in DOMAIN Arena.Null}

\* C7 as stated: whenever the flow condition implies is_known of a pointer
\* value it implies is_null or implies its negation.
KnownImpliesBound ==
  phase \in {"run", "done"} =>
    \A V \in Tracked :
       EnvImplies(State, Arena.Known[V]) => ~Undetermined(State, Arena.Null[V])

\* the values initialised as null, as not null or as unknown: from a null
\* literal, an address-of, or a NonNull or Unspecified effective nullability
InitialisedDecided ==
  {V \in DOMAIN InitFrom :
     \/ InitFrom[V].rule \in {"NullPointer", "NotNullPointer"}
     \/ /\ V \in FromAnnotations
        /\ EffectiveNullability(Prog, InitFrom[V].expr, Lattice) # Nullable}

\* C7, amended: whenever the flow condition implies is_known of a pointer
\* value initialised from a null literal, an address-of or a NonNull or
\* Unspecified nullability, it implies is_null or its negation; is_null is
\* left open under an implied is_known only for values initialised as
\* Nullable, bound to a declaration's variables, or produced by a merge.
KnownImpliesBoundUnlessNullable ==
  phase \in {"run", "done"} =>
    \A V \in Tracked :
       (EnvImplies(State, Arena.Known[V]) /\ Undetermined(State, Arena.Null[V]))
         => V \notin InitialisedDecided

\* after the join of MergeLit the merged value is known, and whether it is
\* null is open; the address-of value is known and not null
KnownImpliesBoundWitness ==
  /\ func[1] = "MergeLit"
  /\ Transferred(15)
  /\ LET V == getPointerValueFromExpr(14, Env)
     IN  /\ V \in Tracked /\ V \notin DOMAIN InitFrom
         /\ EnvImplies(State, Arena.Known[V])
         /\ Undetermined(State, Arena.Null[V])
  /\ \E V \in InitialisedDecided :
        /\ InitFrom[V].rule = "NotNullPointer" /\ InitFrom[V].run = run
        /\ EnvImplies(State, Arena.Known[V])
        /\ EnvImplies(State, makeNot(Arena.Null[V]))
  /\ ~EnvImplies(State, getBoolLiteralValue(FALSE))

\* the boolean handles of null states, and the flow condition tokens of the
\* environments of the run
Handles == {Arena.Known[V] : V \in Tracked} \cup {Arena.Null[V] : V \in Tracked}
Tokens ==
  {Env.FlowConditionToken}
    \cup {BlockOut[b].FlowConditionToken : b \in DOMAIN BlockOut}

\* C8: mergeBoolValues with the same handle on both sides returns that
\* handle, creates no atom and adds nothing to the merged flow condition;
\* so the merged value of two values that agree on a property has their
\* handle for it.
MergeBoolAtIdentity ==
  phase \in {"run", "done"} =>
    /\ \A B \in Handles : \A Tok1 \in Tokens : \A Tok2 \in Tokens :
          mergeBoolValues(State, B, Tok1, B, Tok2) = [S |-> State, val |-> B]
    /\ \A i \in DOMAIN Merges :
          LET M == Merges[i]
              St1 == getPointerNullState(M.Before, M.Val1)
              St2 == getPointerNullState(M.Before, M.Val2)
          IN  M.merged =>
                /\ St1[1] = St2[1] => M.After.Known[M.MergedVal] = St1[1]
                /\ St1[2] = St2[2] => M.After.Null[M.MergedVal] = St1[2]
                /\ St1 = St2 =>
                     /\ M.After.nextAtom = M.Before.nextAtom
                     /\ M.After.FlowConditionConstraints
                          = M.Before.FlowConditionConstraints

\* two distinct values that are both known and not null are merged
MergeBoolAtIdentityWitness ==
  \E i \in DOMAIN Merges :
     LET M == Merges[i] IN
     /\ M.merged
     /\ M.Val1 # M.Val2
     /\ getPointerNullState(M.Before, M.Val1)
          = getPointerNullState(M.Before, M.Val2)
     /\ getPointerNullState(M.After, M.MergedVal)
          = getPointerNullState(M.Before, M.Val1)
     /\ M.After.nextAtom = M.Before.nextAtom


\* the pointer values stored in the environment
PointerValuesInEnv ==
  {Env.LocToVal[l] : l \in {x \in DOMAIN Env.LocToVal :
                              isPointerValue(Env.LocToVal[x])}}

\* C9: merge reports "merged" exactly when the type is a pointer type and
\* both values have a null state; otherwise it reports no merge and leaves
\* the arena (the null states, the atoms and the flow conditions) as it
\* was.  Checked on the calls the joins make and on every pair of pointer
\* values of the environment.
MergeOnlyTrackedPointers ==
  /\ \A i \in DOMAIN Merges :
        LET M == Merges[i] IN
        /\ M.merged <=> /\ isAnyPointerType(M.Type)
                        /\ hasPointerNullState(M.Before, M.Val1)
                        /\ hasPointerNullState(M.Before, M.Val2)
        /\ ~M.merged => M.After = M.Before
  /\ phase = "run" =>
       \A Val1 \in PointerValuesInEnv : \A Val2 \in PointerValuesInEnv :
          LET M == merge(State, Ptr(IntTy), Val1, Env.FlowConditionToken,
                         Val2, Env.FlowConditionToken,
                         PointerValue(Arena.nextVal))
          IN  /\ M.merged <=> /\ hasPointerNullState(Arena, Val1)
                              /\ hasPointerNullState(Arena, Val2)
              /\ ~M.merged => M.S = State

\* a join that merges two pointers and does not merge two integers
MergeOnlyTrackedPointersWitness ==
  \E i \in DOMAIN Merges : \E j \in DOMAIN Merges :
     /\ Merges[i].merged
     /\ isAnyPointerType(Merges[i].Type)
     /\ hasPointerNullState(Merges[i].After, Merges[i].MergedVal)
     /\ ~Merges[j].merged
     /\ ~isAnyPointerType(Merges[j].Type)
     /\ Merges[j].After = Merges[j].Before

\* C10: every pointer value has both is_known and is_null or neither,
\* after every transfer and every merge.
BothOrNeither ==
  \A V \in DOMAIN Arena.Known \cup DOMAIN Arena.Null :
     V \in DOMAIN Arena.Known /\ V \in DOMAIN Arena.Null

\* a merged value with both properties, merged from a value bound to a
\* declaration's variables and a value initialised from an annotation
BothOrNeitherWitness ==
  \E i \in DOMAIN Merges :
     /\ Merges[i].merged
     /\ Merges[i].MergedVal \in Tracked
     /\ getValueAt(Env, DeclLoc("r")) = Merges[i].MergedVal
     /\ InitFrom[Merges[i].Val1].override
     /\ Merges[i].Val2 \in FromAnnotations


\* the declarations that have nullability variables
WithVariables == DOMAIN Lattice.DeclTopLevelNullability

\* the conjunction nonnull /\ nullable of a declaration's variables
BothVariables(D) ==
  makeAnd(Lattice.DeclTopLevelNullability[D].Nonnull,
          Lattice.DeclTopLevelNullability[D].Nullable)

FlowConditionSatisfiable == ~EnvImplies(State, getBoolLiteralValue(FALSE))

\* C11 as stated: for every declaration with nullability variables, the
\* conjunction nonnull /\ nullable is unsatisfiable in every reachable flow
\* condition.
VariablesExclusive ==
  \A D \in WithVariables : EnvImplies(State, makeNot(BothVariables(D)))

\* C11, amended: the analysis adds no constraint that makes nonnull /\
\* nullable unsatisfiable.  A satisfiable flow condition never implies the
\* conjunction, and it excludes the conjunction only when it implies that
\* nonnull is false (the value referred to was shown to be null).
VariablesIndependent ==
  \A D \in WithVariables :
     FlowConditionSatisfiable =>
       /\ ~EnvImplies(State, BothVariables(D))
       /\ EnvImplies(State, makeNot(BothVariables(D))) =>
            EnvImplies(State, makeNot(Lattice.DeclTopLevelNullability[D].Nonnull))

\* a reference to a declaration with variables has been transferred and
\* both variables may still hold together
VariablesIndependentWitness ==
  /\ phase = "done"
  /\ FlowConditionSatisfiable
  /\ \E R \in Overridden :
       /\ R[2] \in WithVariables
       /\ ~EnvImplies(State, makeNot(BothVariables(R[2])))

\* the flow condition implies is_known and ~is_null of the value of E
KnownNotNull(E) ==
  LET V == getPointerValueFromExpr(E, Env) IN
  /\ V # NoValue
  /\ hasPointerNullState(Arena, V)
  /\ EnvImplies(State, getPointerNullState(Arena, V)[1])
  /\ EnvImplies(State, makeNot(getPointerNullState(Arena, V)[2]))

\* C16: once an address-of expression that has a pointer value is
\* transferred, the flow condition implies is_known and ~is_null of that
\* value; in  int i; int *x = &i; int *y = x; *y;  the loads of x and of y
\* carry the same value with that state, whether or not x and y have
\* nullability variables, and the dereference of y is not reported.
AddrOfIsNotNull ==
  /\ \A E \in 1..Len(Prog.nodes) :
       (Transferred(E) /\ FlowSensitiveRule(Prog, E) = "NotNullPointer"
          /\ getPointerValueFromExpr(E, Env) # NoValue) => KnownNotNull(E)
  /\ (func[1] = "DerefAddrOf" /\ Transferred(6)) =>
       (getValue(Env, 6) = getValue(Env, 3) /\ KnownNotNull(6))
  /\ (func[1] = "DerefAddrOf" /\ Transferred(9)) =>
       (getValue(Env, 9) = getValue(Env, 3) /\ KnownNotNull(9))
  /\ (func[1] = "DerefAddrOf" /\ Transferred(10)) =>
       ~diagnoseDereference(State, Prog, 10)

\* the copy of a variable initialised from &i is dereferenced, with
\* nullability variables assigned to the variable and to its copy
AddrOfWitness ==
  /\ func[1] = "DerefAddrOf"
  /\ Transferred(10)
  /\ {"x", "y"} \subseteq DOMAIN Lattice.DeclTopLevelNullability
  /\ getValue(Env, 9) = getValue(Env, 3)
  /\ KnownNotNull(9)
  /\ ~diagnoseDereference(State, Prog, 10)

\* the atoms that are the nullability variables of some declaration
VariableAtoms(L) ==
  UNION {{L.DeclTopLevelNullability[D].Nonnull,
          L.DeclTopLevelNullability[D].Nullable} :
         D \in DOMAIN L.DeclTopLevelNullability}

InitialisedAs(K, St) ==
  /\ K = NonNull =>
       St = <<getBoolLiteralValue(TRUE), getBoolLiteralValue(FALSE)>>
  /\ K = Nullable => (St[1] = getBoolLiteralValue(TRUE) /\ St[2][1] = "atom")
  /\ K = Unspecified => (St[1] = getBoolLiteralValue(FALSE) /\ St[2][1] = "atom")

\* C18: in the step that transfers a statement, the non-flow-sensitive
\* transfer has stored the vector of the expression before the
\* flow-sensitive rule reads it: when the expression had no entry before the
\* step and the step initialises a pointer value from annotations, the
\* null state follows the vector the same step has stored.
NonFlowSensitiveFirst ==
  [][(phase = "run" /\ idx' = idx + 1) =>
       LET E == Elts[idx] IN
       (NonFlowSensitiveRule(Prog, E) # "none"
          /\ E \notin DOMAIN Lattice.ExprNullability) =>
         /\ E \in DOMAIN Lattice'.ExprNullability
         /\ (FlowSensitiveRule(Prog, E) \in {"Pointer", "CallExpr"}
               /\ ~hasOverriddenNullability(Prog, E, Lattice)) =>
              \A V \in DOMAIN Arena'.Known \ DOMAIN Arena.Known :
                 InitialisedAs(EffectiveNullability(Prog, E, Lattice'),
                               getPointerNullState(Arena', V))]_vars

\* the call make<int * _Nullable>() in the first run: its vector and the
\* nullable state of its value come from the same step
NonFlowSensitiveFirstWitness ==
  /\ func = <<"CallMake", Nullable, NoKind>>
  /\ run = 1
  /\ Transferred(3)
  /\ Lattice.ExprNullability[3] = <<Nullable>>
  /\ InitFrom[getPointerValueFromExpr(3, Env)].expr = 3
  /\ getPointerNullState(Arena, getPointerValueFromExpr(3, Env))[1]
       = getBoolLiteralValue(TRUE)

\* the constraint mergeBoolValues is to add for the merged atom m of two
\* distinct handles b1 (of the environment with token f1) and b2 (token f2)
MergedConstraint(A, m, b1, f1, b2, f2) ==
  IF flowConditionImplies(A, f1, b1) /\ flowConditionImplies(A, f2, b2)
    THEN m
  ELSE IF flowConditionImplies(A, f1, makeNot(b1))
            /\ flowConditionImplies(A, f2, makeNot(b2))
    THEN makeNot(m)
  ELSE makeOr(makeAnd(Atom(f1), makeIff(m, b1)),
              makeAnd(Atom(f2), makeIff(m, b2)))

\* the flow condition tokens whose constraints a call of merge has changed
ChangedTokens(M) ==
  {t \in DOMAIN M.After.FlowConditionConstraints :
     t \notin DOMAIN M.Before.FlowConditionConstraints
       \/ M.After.FlowConditionConstraints[t]
            # M.Before.FlowConditionConstraints[t]}

\* the constraints a call of merge has added to the token t
AddedConstraints(M, t) ==
  SubSeq(M.After.FlowConditionConstraints[t],
         (IF t \in DOMAIN M.Before.FlowConditionConstraints
            THEN Len(M.Before.FlowConditionConstraints[t]) ELSE 0) + 1,
         Len(M.After.FlowConditionConstraints[t]))

\* C19: in every merge of two tracked pointer values, each property (is_known,
\* then is_null) whose two handles differ gets a new atom m as merged handle
\* and exactly one constraint on the merged flow condition: m if both input
\* flow conditions imply their handle, else ~m if both imply the negation,
\* else (f1 /\ (m <=> b1)) \/ (f2 /\ (m <=> b2)); the constraints of the
\* input flow conditions stay as they were.
MergeBoolDistinct ==
  \A i \in DOMAIN Merges :
     LET M == Merges[i]
         St1 == getPointerNullState(M.Before, M.Val1)
         St2 == getPointerNullState(M.Before, M.Val2)
         nK == IF St1[1] # St2[1] THEN 1 ELSE 0
         nN == IF St1[2] # St2[2] THEN 1 ELSE 0
         mK == Atom(M.Before.nextAtom)
         mN == Atom(M.Before.nextAtom + nK)
         Expected ==
           (IF nK = 1 THEN <<MergedConstraint(M.Before, mK, St1[1], M.Tok1,
                                              St2[1], M.Tok2)>> ELSE <<>>)
           \o (IF nN = 1 THEN <<MergedConstraint(M.Before, mN, St1[2], M.Tok1,
                                                 St2[2], M.Tok2)>> ELSE <<>>)
     IN  M.merged =>
           /\ M.After.nextAtom = M.Before.nextAtom + nK + nN
           /\ nK = 1 => M.After.Known[M.MergedVal] = mK
           /\ nN = 1 => M.After.Null[M.MergedVal] = mN
           /\ M.After.FlowConditionDeps = M.Before.FlowConditionDeps
           /\ \A t \in ChangedTokens(M) :
                 /\ t \notin {M.Tok1, M.Tok2}
                 /\ AddedConstraints(M, t) = Expected
                 /\ SubSeq(M.After.FlowConditionConstraints[t], 1,
                           Len(M.After.FlowConditionConstraints[t]) - Len(Expected))
                      = M.Before.FlowConditionConstraints[t]
           /\ Cardinality(ChangedTokens(M)) = (IF nK + nN > 0 THEN 1 ELSE 0)

\* the constraint added for the merged is_null of a call of merge, if the
\* two is_null handles differ
NullConstraint(M) ==
  LET t == CHOOSE t \in ChangedTokens(M) : TRUE
  IN  M.After.FlowConditionConstraints[t][Len(M.After.FlowConditionConstraints[t])]

MergedNullDiffers(M) ==
  /\ M.merged
  /\ getPointerNullState(M.Before, M.Val1)[2]
       # getPointerNullState(M.Before, M.Val2)[2]

\* a merge after if (p) of p with &i: neither is null, and ~m is added
MergeBoolDistinctWitness ==
  /\ func[1] = "MergeCheckedNotNull"
  /\ \E i \in DOMAIN Merges :
        /\ MergedNullDiffers(Merges[i])
        /\ NullConstraint(Merges[i])
             = makeNot(getPointerNullState(Merges[i].After, Merges[i].MergedVal)[2])

\* C15: for  void target(int *b *a p) { *p; **p; }  with no nullability
\* variables assigned to p, the dereference of p (in *p and in **p) is
\* reported exactly when a is Nullable and the dereference of *p exactly when
\* b is Nullable, so that the statement **p is reported exactly when a or b
\* is Nullable.
DoubleDereferenceUnsafe ==
  (func[1] = "DoubleDereference"
     /\ "p" \notin DOMAIN Lattice.DeclTopLevelNullability) =>
    /\ Transferred(3) => (diagnoseDereference(State, Prog, 3) <=> func[2] = Nullable)
    /\ Transferred(6) => (diagnoseDereference(State, Prog, 6) <=> func[2] = Nullable)
    /\ Transferred(8) =>
         /\ diagnoseDereference(State, Prog, 8) <=> func[3] = Nullable
         /\ (diagnoseDereference(State, Prog, 6) \/ diagnoseDereference(State, Prog, 8))
              <=> (func[2] = Nullable \/ func[3] = Nullable)

\* int *_Nullable *_Nonnull p: only the inner dereference of **p is reported
DoubleDereferenceWitness ==
  /\ func = <<"DoubleDereference", NonNull, Nullable>>
  /\ "p" \notin DOMAIN Lattice.DeclTopLevelNullability
  /\ Transferred(8)
  /\ ~diagnoseDereference(State, Prog, 6)
  /\ diagnoseDereference(State, Prog, 8)

\* C13: a walk without substitution hook reports as many annotations for a
\* type as for its canonical type, whatever sugar the type is written with
\* (typedefs, attributes, elaborated names, alias templates, written or
\* defaulted template arguments, substituted parameters), so that two
\* canonically equivalent types have the same number of pointers.
CanonicalEquivalence ==
  (walker # NotCalled /\ walkInput.Hook = NoHook) =>
    /\ Len(walker.Annotations) = countPointersInType(Canonical(walkInput.T))
    /\ \A I \in WalkInputs :
         (I.Hook = NoHook /\ Canonical(I.T) = Canonical(walkInput.T)) =>
           countPointersInType(I.T) = Len(walker.Annotations)

\* Dflt<int *_Nonnull> is walked: one pointer is written, one is defaulted
CanonicalEquivalenceWitness ==
  /\ walker # NotCalled
  /\ walkInput = [T |-> DfltType(Attr(NonNull, Ptr(IntTy))), Hook |-> NoHook]
  /\ walker.Annotations = <<NonNull, Unspecified>>

\* C12 as stated: rebuilding a canonical type with a vector of its length
\* fails neither CHECK, and the annotations of the rebuilt type are the vector
RoundTrip ==
  (rebuilder # NotCalled /\ walkInput.T = Canonical(walkInput.T)) =>
    /\ ~rebuilder.short
    /\ ~rebuilder.long
    /\ rebuilder.annotations = walkVector

\* C20 as stated: no walk fails the CHECK of VisitAttributedType
NeverBrokenTypeSugar ==
  walker # NotCalled => ~walker.Broken

\* the slice of the receiver's vector Recv that belongs to argument i
\* (counted from 0) of the class template specialization D at namespace
\* scope: it starts after the pointers of the arguments before i
ReceiverSlice(Recv, D, i) ==
  SubSeq(Recv, countPointersInArguments(SubSeq(D.args, 1, i)) + 1,
         countPointersInArguments(SubSeq(D.args, 1, i + 1)))

ArgumentWalkedInItsContext ==
  walker # NotCalled =>
    /\ \A i \in DOMAIN walker.ArgContexts :
         walker.ArgContexts[i].In = walker.ArgContexts[i].Found.ArgContext
    /\ walker.CurrentTemplateContext = nullptr

\* the pending-annotation rule as the specification words it: the vector
\* emitted for the type T when the buffer holds B.  An annotation is
\* buffered unless one is buffered already; a pointer emits the buffer, or
\* Unspecified when it is empty, and clears it; every other type that is
\* not sugar clears the buffer and emits nothing.  Nullable<X> and Same<X>
\* are sugar for X.
RECURSIVE PendingRule(_, _)
RECURSIVE PendingRuleEach(_)
PendingRuleEach(Ts) ==
  IF Ts = <<>> THEN <<>>
  ELSE PendingRule(Head(Ts), NoKind) \o PendingRuleEach(Tail(Ts))

PendingRule(T, B) ==
  CASE T[1] = "attr" -> PendingRule(T[3], IF B = NoKind THEN T[2] ELSE B)
    [] T[1] = "alias" ->
         PendingRule(T[3][1][2], IF B = NoKind THEN T[2].annotation ELSE B)
    [] T[1] = "typedef" -> PendingRule(T[2], B)
    [] T[1] = "ptr" ->
         <<IF B = NoKind THEN Unspecified ELSE B>> \o PendingRule(T[2], NoKind)
    [] T[1] \in {"ref", "array"} -> PendingRule(T[2], NoKind)
    [] T[1] = "fn" -> PendingRule(T[2], NoKind) \o PendingRuleEach(T[3])
    [] T[1] = "tst" -> PendingRuleEach([i \in DOMAIN T[3] |-> T[3][i][2]])
    [] OTHER -> <<>>

\* the types the rule is checked on: pointers, references, arrays, function
\* types, typedefs, P<F, S> and the aliases Nullable<X> and Same<X>
PendingRuleTypes ==
  PointerChains(MaxPointerDepth) \cup AnnotatedTwice
    \cup {Ref(X) : X \in WrittenArgs} \cup {Array(X) : X \in WrittenArgs}
    \cup {Typedef(X) : X \in WrittenArgs}
    \cup {FunctionProto(X, <<Y>>) : X \in WrittenArgs, Y \in WrittenArgs}
    \cup {PType(X, Y) : X \in WrittenArgs, Y \in WrittenArgs}
    \cup {AliasType(A, X) : A \in {NullableAlias, SameAlias},
                            X \in (WrittenArgs \ {IntTy}) \cup NonPointers}

\* C22: the walker emits what the pending-annotation rule says: a buffered
\* annotation goes to the next pointer, a pointer without one is
\* Unspecified, a reference, array, function, record or builtin type drops
\* it, and of two annotations without a pointer in between the outer one is
\* emitted; nothing is left in the buffer and no CHECK fails
PendingAnnotationRule ==
  (walker # NotCalled /\ walkInput.Hook = NoHook
     /\ walkInput.T \in PendingRuleTypes) =>
    /\ walker.Annotations = PendingRule(walkInput.T, NoKind)
    /\ walker.Pending = NoKind
    /\ ~walker.Broken

\* the outer annotation is emitted: Nullable<int *_Nonnull> is [Nullable]
PendingAnnotationWitness ==
  /\ walker # NotCalled
  /\ walkInput.T = AliasType(NullableAlias, Attr(NonNull, Ptr(IntTy)))
  /\ walker.Annotations = <<Nullable>>

\* the casts whose rule returns the vector of the operand
EquivalentCasts ==
  {"CK_LValueToRValue", "CK_NoOp", "CK_AtomicToNonAtomic", "CK_NonAtomicToAtomic",
   "CK_AddressSpaceConversion", "CK_BuiltinFnToFnPtr"}

\* C23: a cast between equivalent types computes the vector of its operand;
\* when that vector has not as many entries as the type of the cast has
\* pointers (an atomic type has none, whatever it wraps), the entry stored
\* for the cast is the all-Unspecified vector of the length of its type
MismatchReplaced ==
  \A e \in DOMAIN Lattice.ExprNullability :
     (Prog.nodes[e].kind = "ImplicitCastExpr" /\ Prog.nodes[e].op \in EquivalentCasts
        /\ Prog.nodes[e].sub \in DOMAIN Lattice.ExprNullability) =>
       Lattice.ExprNullability[e]
         = IF Len(Lattice.ExprNullability[Prog.nodes[e].sub])
                = countPointersInType(exprType(Prog, e))
             THEN Lattice.ExprNullability[Prog.nodes[e].sub]
             ELSE UnspecifiedVector(countPointersInType(exprType(Prog, e)))

\* the cast of AtomicStore computed [Nullable] for a type without pointers:
\* its entry is empty, and the analysis went on to the last statement
MismatchReplacedWitness ==
  /\ func = <<"AtomicStore", Nullable, NoKind>>
  /\ Transferred(7)
  /\ Lattice.ExprNullability[2] = <<Nullable>>
  /\ Lattice.ExprNullability[3] = <<>>
  /\ Lattice.ExprNullability[6] = <<Nullable>>

\* the casts between unrelated types and along a class hierarchy
BitCastFamily ==
  {"CK_LValueBitCast", "CK_BitCast", "CK_LValueToRValueBitCast",
   "CK_BaseToDerived", "CK_DerivedToBase"}

\* the canonical types S and D are both pointer types at every depth 0..k
RECURSIVE BothPointersTo(_, _, _)
BothPointersTo(S, D, k) ==
  /\ S[1] = "ptr" /\ D[1] = "ptr"
  /\ k = 0 \/ BothPointersTo(S[2], D[2], k - 1)

\* C24: the vector of a cast of the bit-cast family has one entry for every
\* pointer of the destination type; the entry at depth k is the operand's
\* when source and destination are pointers at all depths up to k, and
\* Unspecified otherwise, whatever the destination type is annotated with
BitCastPreservesTopLevel ==
  \A e \in DOMAIN Lattice.ExprNullability :
     (Prog.nodes[e].kind = "ImplicitCastExpr" /\ Prog.nodes[e].op \in BitCastFamily
        /\ Prog.nodes[e].sub \in DOMAIN Lattice.ExprNullability) =>
       /\ Len(Lattice.ExprNullability[e]) = countPointersInType(exprType(Prog, e))
       /\ \A k \in 0..(Len(Lattice.ExprNullability[e]) - 1) :
            Lattice.ExprNullability[e][k + 1]
              = IF BothPointersTo(Canonical(exprType(Prog, Prog.nodes[e].sub)),
                                  Canonical(exprType(Prog, e)), k)
                  THEN Lattice.ExprNullability[Prog.nodes[e].sub][k + 1]
                  ELSE Unspecified

\* with p of type int *_Nullable *_Nonnull and q, d annotated alike:
\* (void *)p is [NonNull], (char *_Nonnull *)p is [NonNull, Nullable] (the
\* operand's entries, not the destination's annotation), (char **)q is
\* [NonNull, Unspecified] and (Base *)d is [Nullable]
BitCastWitness ==
  /\ func = <<"BitCasts", NonNull, Nullable>>
  /\ Transferred(12)
  /\ Lattice.ExprNullability[3] = <<NonNull>>
  /\ Lattice.ExprNullability[6] = <<NonNull, Nullable>>
  /\ Lattice.ExprNullability[9] = <<NonNull, Unspecified>>
  /\ Lattice.ExprNullability[12] = <<Nullable>>

\* C25 as stated: below the top entry the vector of a null-to-pointer cast
\* is Unspecified, whatever the destination type is annotated with
NullToPointerUnspecifiedBelow ==
  \A e \in DOMAIN Lattice.ExprNullability :
     (Prog.nodes[e].kind = "ImplicitCastExpr" /\ Prog.nodes[e].op = "CK_NullToPointer") =>
       Lattice.ExprNullability[e]
         = IF isNullPtrType(exprType(Prog, e)) THEN <<>>
           ELSE [UnspecifiedVector(countPointersInType(exprType(Prog, e)))
                   EXCEPT ![1] = Nullable]

\* C25, amended: the vector of a null-to-pointer cast to nullptr_t is empty;
\* to any other type it has one entry for every pointer of the destination
\* type; when the destination is a pointer type the top entry is Nullable
\* whatever the type says, and the entries below are the annotations of the
\* destination type:  the initializer of  int *b *a x  is [Nullable, b]
NullToPointerKeepsInner ==
  \A e \in DOMAIN Lattice.ExprNullability :
     (Prog.nodes[e].kind = "ImplicitCastExpr" /\ Prog.nodes[e].op = "CK_NullToPointer") =>
       /\ Len(Lattice.ExprNullability[e]) = countPointersInType(exprType(Prog, e))
       /\ isNullPtrType(exprType(Prog, e)) => Lattice.ExprNullability[e] = <<>>
       /\ isAnyPointerType(exprType(Prog, e)) =>
            Lattice.ExprNullability[e][1] = Nullable
       /\ (func[1] = "NullInit" /\ e = 2) =>
            Lattice.ExprNullability[e][2] = value_or(func[3], Unspecified)

\* int *_Nonnull *_Nonnull x = nullptr: the cast is [Nullable, NonNull], and
\* the cast of 0 to nullptr_t is []
NullToPointerWitness ==
  /\ func = <<"NullInit", NonNull, NonNull>>
  /\ Transferred(6)
  /\ Lattice.ExprNullability[2] = <<Nullable, NonNull>>
  /\ Lattice.ExprNullability[5] = <<>>

\* the constraints of the flow condition token Token
ConstraintsOf(A, Token) ==
  IF Token \in DOMAIN A.FlowConditionConstraints
    THEN A.FlowConditionConstraints[Token] ELSE <<>>

\* the statement about to be transferred is a comparison of two pointers
AtComparison ==
  /\ phase = "run" /\ idx <= Len(Elts)
  /\ Prog.nodes[Elts[idx]].kind = "BinaryOperator"
  /\ Prog.nodes[Elts[idx]].op \in {"BO_EQ", "BO_NE"}

\* C26: the transfer of a comparison of two pointers that have values adds
\* to the flow condition the three implications (LN /\ RN) => eq,
\* (LN /\ ~RN) => ne and (~LN /\ RN) => ne, in the current token and
\* after the constraints it had; no other token and no null state changes;
\* and when both operands are known to be not null the flow condition
\* implies neither the comparison nor its negation
ComparisonConstraints ==
  [][(AtComparison /\ idx' = idx + 1) =>
       LET BinaryOp == Elts[idx]
           Tok == Env.FlowConditionToken
           Cmp == getValue(Env', BinaryOp)
           IsEQ == Prog.nodes[BinaryOp].op = "BO_EQ"
           EQ == IF IsEQ THEN Cmp ELSE makeNot(Cmp)
           NE == IF IsEQ THEN makeNot(Cmp) ELSE Cmp
           LN == Arena.Null[getPointerValueFromExpr(Prog.nodes[BinaryOp].sub, Env)]
           RN == Arena.Null[getPointerValueFromExpr(Prog.nodes[BinaryOp].sub2, Env)]
       IN  /\ Env'.FlowConditionToken = Tok
           /\ ConstraintsOf(Arena', Tok)
                = ConstraintsOf(Arena, Tok)
                    \o <<makeImplication(makeAnd(LN, RN), EQ),
                         makeImplication(makeAnd(LN, makeNot(RN)), NE),
                         makeImplication(makeAnd(makeNot(LN), RN), NE)>>
           /\ \A t \in DOMAIN Arena'.FlowConditionConstraints \ {Tok} :
                ConstraintsOf(Arena', t) = ConstraintsOf(Arena, t)
           /\ Arena'.Null = Arena.Null /\ Arena'.Known = Arena.Known
           /\ (LN = getBoolLiteralValue(FALSE) /\ RN = getBoolLiteralValue(FALSE)) =>
                /\ ~flowConditionImplies(Arena', Tok, Cmp)
                /\ ~flowConditionImplies(Arena', Tok, makeNot(Cmp))
    ]_vars

\* p != q with both p and q _Nonnull has been transferred: the three
\* constraints are there and the comparison is not decided;  p == nullptr
\* with p _Nonnull has been transferred and is decided: it is false
ComparisonWitness ==
  /\ func = <<"Compare", NonNull, NonNull>>
  /\ Transferred(15)
  /\ Len(ConstraintsOf(Arena, Env.FlowConditionToken)) = 9
  /\ ~EnvImplies(State, getValue(Env, 10))
  /\ ~EnvImplies(State, makeNot(getValue(Env, 10)))
  /\ EnvImplies(State, makeNot(getValue(Env, 15)))

(***************************************************************************)
(* The flow-sensitive transfer of call expressions.                         *)
(***************************************************************************)
AtCall ==
  /\ phase = "run" /\ idx <= Len(Elts)
  /\ Prog.nodes[Elts[idx]].kind \in {"CallExpr", "CXXMemberCallExpr"}

\* the null state that the annotation K gives a pointer value
NullStateFrom(K, A, PointerVal) ==
  CASE K = NonNull -> /\ A.Known[PointerVal] = <<"lit", TRUE>>
                      /\ A.Null[PointerVal] = <<"lit", FALSE>>
    [] K = Nullable -> /\ A.Known[PointerVal] = <<"lit", TRUE>>
                       /\ A.Null[PointerVal][1] = "atom"
    [] OTHER -> /\ A.Known[PointerVal] = <<"lit", FALSE>>
                /\ A.Null[PointerVal][1] = "atom"

LocationsInUse(E, A) ==
  {E.ExprToLoc[x] : x \in DOMAIN E.ExprToLoc} \cup DOMAIN E.LocToVal
    \cup {A.PointeeLoc[v] : v \in DOMAIN A.PointeeLoc}

PositionalAccessesInRange ==
  (phase = "run" /\ idx <= Len(Elts)) =>
    ~OutOfRangeAccess(Prog, Elts[idx], Lattice)

(***************************************************************************)
(* One rule of each table per CFG element.                                  *)
(***************************************************************************)
\* the vector the member-call rule stores: the first entries of the
\* callee's vector, as many as the type of the call has pointers
MemberCallVector(Callee, Count) ==
  IF Len(take_front(Callee, Count)) = Count THEN take_front(Callee, Count)
  ELSE UnspecifiedVector(Count)

====
